---- MODULE Spec2Model ----
(***************************************************************************)
(* Fancy2048: the move search of src/advanced_ai_solver.py                 *)
(* (Advanced2048AI, MCTSNode) and the parts of src/app.py it meets         *)
(* (GameEngine terminal test and possible moves, AISolver.get_best_move).  *)
(*                                                                         *)
(* A Python GameState object is a record [board, score, size, ref]; ref is *)
(* the identity of the object, so that a write through an alias is seen by *)
(* the holder of the original.  An operator that receives an object        *)
(* returns, next to its result, the content of that object after the call  *)
(* (field arg).                                                            *)
(*                                                                         *)
(* Heuristic values are Python floats; here they are fixed-point integers  *)
(* in hundredths (Centi), divisions round down.                            *)
(***************************************************************************)
EXTENDS Integers, Sequences, FiniteSets, TLC

\* ------------------------------------------------------------------ bounds
\* largest exponent of a tile on an input board (tiles 2^1 .. 2^MaxExp)
MaxExp == 2
\* largest number of time checks that may pass inside one step before the
\* time budget expires (the budget may also not expire in the step)
MaxTicks == 2
\* cap on the MCTS iterations explored (the loop bound is mcts_simulations)
MaxSims == 5
\* cap on the move counter of the games the application plays
MaxMoves == 2
\* cap on the get_best_move calls made on one solver
MaxCalls == 2

\* ------------------------------------------------------- enums, constants
\* Direction enum in definition order (the order `for direction in Direction`)
Direction == <<"up", "down", "left", "right">>
Directions == {Direction[k] : k \in 1..4}
NoMove == "None"

AIAlgorithm == {"expectimax", "alpha_beta", "monte_carlo", "minimax", "neural"}

\* ----------------------------------------------------------- GameState
RECURSIVE Pow2(_)
Pow2(e) == IF e = 0 THEN 1 ELSE 2 * Pow2(e - 1)

TileValues == {0} \cup {Pow2(e) : e \in 1..MaxExp}

GameState(b, s, r) == [board |-> b, score |-> s, size |-> Len(b), ref |-> r]

\* a second name for the same object instead of a copy
alias(state) == state

\* GameState.copy: a new object with copied rows
copy(state) == [board |-> state.board, score |-> state.score,
                size |-> state.size, ref |-> state.ref + 1]

\* content of object `old` after object `new` has been written
After(old, new) == IF new.ref = old.ref THEN new ELSE old

\* GameState.get_empty_cells: row-major list of <<i, j>>
RECURSIVE EmptyFrom(_, _, _)
EmptyFrom(b, n, k) ==
    IF k >= n * n THEN <<>>
    ELSE LET i == (k \div n) + 1
             j == (k % n) + 1
         IN (IF b[i][j] = 0 THEN <<(<<i, j>>)>> ELSE <<>>) \o EmptyFrom(b, n, k + 1)
get_empty_cells(state) == EmptyFrom(state.board, state.size, 0)

Max2(a, b) == IF a >= b THEN a ELSE b

RECURSIVE SeqMax(_)
SeqMax(s) == IF Len(s) = 1 THEN s[1] ELSE Max2(s[1], SeqMax(Tail(s)))
get_max_tile(state) == SeqMax([i \in 1..state.size |-> SeqMax(state.board[i])])

\* --------------------------------------------------- slide and merge
\* [x for x in line if x != 0]
RECURSIVE NonZero(_)
NonZero(line) ==
    IF line = <<>> THEN <<>>
    ELSE (IF line[1] # 0 THEN <<line[1]>> ELSE <<>>) \o NonZero(Tail(line))

Zeros(n) == [k \in 1..n |-> 0]

\* the merge loop of _move_left / _move_up: i runs upward from the first tile
RECURSIVE MergeForward(_, _, _, _)
MergeForward(tiles, i, merged, sc) ==
    IF i > Len(tiles) THEN [merged |-> merged, score |-> sc]
    ELSE IF i < Len(tiles) /\ tiles[i] = tiles[i + 1]
         THEN MergeForward(tiles, i + 2, Append(merged, tiles[i] * 2), sc + tiles[i] * 2)
         ELSE MergeForward(tiles, i + 1, Append(merged, tiles[i]), sc)

\* a merge loop for right/down that pairs the tiles from the far edge
MergeFromFront(tiles, i, merged, sc) == MergeForward(tiles, 1, merged, sc)

\* the merge loop of _move_right / _move_down: i runs downward from the last
\* tile, merged.insert(0, ...)
RECURSIVE MergeBackward(_, _, _, _)
MergeBackward(tiles, i, merged, sc) ==
    IF i < 1 THEN [merged |-> merged, score |-> sc]
    ELSE IF i > 1 /\ tiles[i] = tiles[i - 1]
         THEN MergeBackward(tiles, i - 2, <<tiles[i] * 2>> \o merged, sc + tiles[i] * 2)
         ELSE MergeBackward(tiles, i - 1, <<tiles[i]>> \o merged, sc)

Column(b, col) == [row \in 1..Len(b) |-> b[row][col]]
SetColumn(b, col, new_col) ==
    [row \in 1..Len(b) |-> [b[row] EXCEPT ![col] = new_col[row]]]

\* `merged + [0] * (size - len(merged))` and `[0] * (...) + merged`
FillAfter(m, size) == m.merged \o Zeros(size - Len(m.merged))
FillBefore(m, size) == Zeros(size - Len(m.merged)) \o m.merged

\* a row iteration whose flag forgets the rows before it
RowDoneLast(state, row, moved, new_row, sc) ==
    [moved |-> new_row # state.board[row],
     state |-> [state EXCEPT !.score = sc, !.board[row] = new_row]]

\* end of a row iteration, `if new_row != state.board[row]`: the state and
\* the flag moved after it (sc is state.score after the merges of the row)
RowDone(state, row, moved, new_row, sc) ==
    IF new_row # state.board[row]
    THEN [moved |-> TRUE, state |-> [state EXCEPT !.score = sc, !.board[row] = new_row]]
    ELSE [moved |-> moved, state |-> [state EXCEPT !.score = sc]]

\* end of a column iteration, `if new_col != old_col`
ColDone(state, col, moved, new_col, sc) ==
    IF new_col # Column(state.board, col)
    THEN [moved |-> TRUE,
          state |-> [state EXCEPT !.score = sc,
                                  !.board = SetColumn(state.board, col, new_col)]]
    ELSE [moved |-> moved, state |-> [state EXCEPT !.score = sc]]

\* the row or column written with the merged tiles m
RowMerged(state, row, moved, m, new_row) == RowDone(state, row, moved, new_row, m.score)
ColMerged(state, col, moved, m, new_col) == ColDone(state, col, moved, new_col, m.score)

\* Rows/columns of _move_left, _move_right, _move_up, _move_down.  Each
\* mutates state in place and returns moved: [moved, state]
RECURSIVE MoveLeftRows(_, _, _), MoveRightRows(_, _, _), MoveUpCols(_, _, _),
          MoveDownCols(_, _, _)

LeftRow(state, row, moved, m) ==
    RowMerged(state, row, moved, m, FillAfter(m, state.size))
LeftNext(r, row) == MoveLeftRows(r.state, row + 1, r.moved)
MoveLeftRows(state, row, moved) ==
    IF row > state.size THEN [moved |-> moved, state |-> state]
    ELSE LeftNext(LeftRow(state, row, moved,
                          MergeForward(NonZero(state.board[row]), 1, <<>>, state.score)),
                  row)

\* Advanced2048AI._move_left
_move_left(state) == MoveLeftRows(state, 1, FALSE)

RightRow(state, row, moved, m) ==
    RowMerged(state, row, moved, m, FillBefore(m, state.size))
RightNext(r, row) == MoveRightRows(r.state, row + 1, r.moved)
MoveRightRows(state, row, moved) ==
    IF row > state.size THEN [moved |-> moved, state |-> state]
    ELSE RightNext(RightRow(state, row, moved,
                            MergeBackward(NonZero(state.board[row]),
                                          Len(NonZero(state.board[row])), <<>>, state.score)),
                   row)

\* Advanced2048AI._move_right
_move_right(state) == MoveRightRows(state, 1, FALSE)

UpCol(state, col, moved, m) ==
    ColMerged(state, col, moved, m, FillAfter(m, state.size))
UpNext(r, col) == MoveUpCols(r.state, col + 1, r.moved)
MoveUpCols(state, col, moved) ==
    IF col > state.size THEN [moved |-> moved, state |-> state]
    ELSE UpNext(UpCol(state, col, moved,
                      MergeForward(NonZero(Column(state.board, col)), 1, <<>>, state.score)),
                col)

\* Advanced2048AI._move_up
_move_up(state) == MoveUpCols(state, 1, FALSE)

DownCol(state, col, moved, m) ==
    ColMerged(state, col, moved, m, FillBefore(m, state.size))
DownNext(r, col) == MoveDownCols(r.state, col + 1, r.moved)
MoveDownCols(state, col, moved) ==
    IF col > state.size THEN [moved |-> moved, state |-> state]
    ELSE DownNext(DownCol(state, col, moved,
                          MergeBackward(NonZero(Column(state.board, col)),
                                        Len(NonZero(Column(state.board, col))),
                                        <<>>, state.score)),
                  col)

\* Advanced2048AI._move_down
_move_down(state) == MoveDownCols(state, 1, FALSE)

\* the dispatch of _simulate_move on the copy
MoveIn(new_state, direction) ==
    IF direction = "left" THEN _move_left(new_state)
    ELSE IF direction = "right" THEN _move_right(new_state)
    ELSE IF direction = "up" THEN _move_up(new_state)
    ELSE _move_down(new_state)

\* `return new_state if moved else None`: moved = FALSE stands for None;
\* arg is the argument object after the call
Simulated(state, r) ==
    [moved |-> r.moved, new_state |-> r.state, arg |-> After(state, r.state)]

\* Advanced2048AI._simulate_move
_simulate_move(state, direction) == Simulated(state, MoveIn(copy(state), direction))

\* loop of _has_possible_moves, the argument threaded through
RECURSIVE HasMovesFrom(_, _)
HasMovesNext(r, k) ==
    IF r.moved THEN [ret |-> TRUE, arg |-> r.arg] ELSE HasMovesFrom(r.arg, k + 1)
HasMovesFrom(state, k) ==
    IF k > 4 THEN [ret |-> FALSE, arg |-> state]
    ELSE HasMovesNext(_simulate_move(state, Direction[k]), k)

\* Advanced2048AI._has_possible_moves
_has_possible_moves(state) == HasMovesFrom(state, 1)

\* Advanced2048AI._get_state_key: str(board); the text of a list of lists of
\* integers determines the board, so the key is the board
_get_state_key(state) == state.board

\* ------------------------------------------------------------ heuristic
\* math.log2 of a tile (exact on powers of two)
RECURSIVE Log2(_)
Log2(v) == IF v <= 1 THEN 0 ELSE 1 + Log2(v \div 2)

\* 1000 * log2(n), n = 1..17, rounded
Log2Milli == <<0, 1000, 1585, 2000, 2322, 2585, 2807, 3000, 3170, 3322, 3459,
               3585, 3700, 3807, 3907, 4000, 4087>>

\* self.weights, in hundredths
weights == [smoothness |-> 10, monotonicity |-> 100, empty_cells |-> 270,
            max_tile |-> 100, snake_weight |-> 25, corner_weight |-> 10]

Abs(x) == IF x < 0 THEN -x ELSE x

RECURSIVE SumTo(_, _)
SumTo(f, n) == IF n = 0 THEN 0 ELSE f[n] + SumTo(f, n - 1)

\* Advanced2048AI._calculate_smoothness
_calculate_smoothness(board) ==
    LET size == Len(board)
        cell(k) ==
            LET i == ((k - 1) \div size) + 1
                j == ((k - 1) % size) + 1
            IN IF board[i][j] = 0 THEN 0
               ELSE (IF j < size /\ board[i][j + 1] # 0
                     THEN - Abs(Log2(board[i][j]) - Log2(board[i][j + 1])) ELSE 0)
                  + (IF i < size /\ board[i + 1][j] # 0
                     THEN - Abs(Log2(board[i][j]) - Log2(board[i + 1][j])) ELSE 0)
    IN SumTo([k \in 1..(size * size) |-> cell(k)], size * size)

\* inner `while next_val < size and line[next_val] == 0` (indices from 1)
RECURSIVE SkipZeros(_, _)
SkipZeros(line, next_val) ==
    IF next_val <= Len(line) /\ line[next_val] = 0
    THEN SkipZeros(line, next_val + 1) ELSE next_val

\* outer while loop of _calculate_monotonicity over one row or column;
\* a and b are the two totals the line adds to
RECURSIVE MonoLine(_, _, _, _, _)
MonoLine(line, current, next_val, a, b) ==
    IF next_val > Len(line) THEN [a |-> a, b |-> b]
    ELSE LET nv == SkipZeros(line, next_val)
         IN IF nv > Len(line) THEN [a |-> a, b |-> b]
            ELSE LET current_val == IF line[current] # 0 THEN Log2(line[current]) ELSE 0
                     next_log == Log2(line[nv])
                 IN IF current_val > next_log
                    THEN MonoLine(line, nv, nv + 1, a + (next_log - current_val), b)
                    ELSE IF next_log > current_val
                    THEN MonoLine(line, nv, nv + 1, a, b + (current_val - next_log))
                    ELSE MonoLine(line, nv, nv + 1, a, b)

\* Advanced2048AI._calculate_monotonicity
_calculate_monotonicity(board) ==
    LET size == Len(board)
        rowT == [i \in 1..size |-> MonoLine(board[i], 1, 2, 0, 0)]
        colT == [j \in 1..size |-> MonoLine(Column(board, j), 1, 2, 0, 0)]
        t0 == SumTo([i \in 1..size |-> rowT[i].a], size)
        t1 == SumTo([i \in 1..size |-> rowT[i].b], size)
        t2 == SumTo([j \in 1..size |-> colT[j].a], size)
        t3 == SumTo([j \in 1..size |-> colT[j].b], size)
    IN Max2(t0, t1) + Max2(t2, t3)

\* the serpentine list of positions built by _calculate_snake_pattern
SnakePositions(size) ==
    [k \in 1..(size * size) |->
        LET i == ((k - 1) \div size) + 1
            c == ((k - 1) % size) + 1
        IN IF (i - 1) % 2 = 0 THEN <<i, c>> ELSE <<i, size + 1 - c>>]

\* Advanced2048AI._calculate_snake_pattern
_calculate_snake_pattern(board) ==
    LET size == Len(board)
        positions == SnakePositions(size)
        pair(idx) ==
            LET val1 == board[positions[idx][1]][positions[idx][2]]
                val2 == board[positions[idx + 1][1]][positions[idx + 1][2]]
            IN IF val1 # 0 /\ val2 # 0
               THEN (IF val1 >= val2 THEN Log2(val1) ELSE - Log2(val2))
               ELSE 0
    IN SumTo([idx \in 1..(size * size - 1) |-> pair(idx)], size * size - 1)

\* Advanced2048AI._calculate_corner_bonus
_calculate_corner_bonus(board) ==
    LET size == Len(board)
        max_tile == SeqMax([i \in 1..size |-> SeqMax(board[i])])
    IN IF \E c \in {<<1, 1>>, <<1, size>>, <<size, 1>>, <<size, size>>} :
              board[c[1]][c[2]] = max_tile
       THEN (IF max_tile > 0 THEN Log2(max_tile) ELSE 0)
       ELSE 0

\* the terms 1..6 of _evaluate_state, in hundredths
MaxTileTerm(max_tile) == IF max_tile > 0 THEN weights.max_tile * Log2(max_tile) ELSE 0
HeuristicSum(state, empty_cells) ==
      (weights.empty_cells * Log2Milli[empty_cells + 1]) \div 1000
    + weights.smoothness * _calculate_smoothness(state.board)
    + weights.monotonicity * _calculate_monotonicity(state.board)
    + MaxTileTerm(get_max_tile(state))
    + weights.snake_weight * _calculate_snake_pattern(state.board)
    + weights.corner_weight * _calculate_corner_bonus(state.board)

\* `self.heuristic_cache[state_key] = score; return score`
Memoized(state_key, score, ctx, arg) ==
    [value |-> score,
     ctx |-> [ctx EXCEPT !.heuristic_cache = (state_key :> score) @@ ctx.heuristic_cache],
     arg |-> arg]

\* a penalty for every board without an empty cell
PenalizedWhenFull(state, ctx, empty_cells, s6, hm) ==
    Memoized(_get_state_key(state),
             IF empty_cells = 0 THEN s6 - 100000000 ELSE s6,
             ctx, hm.arg)

\* term 7: `if empty_cells == 0 and not self._has_possible_moves(state)`
Penalized(state, ctx, empty_cells, s6, hm) ==
    Memoized(_get_state_key(state),
             IF empty_cells = 0 /\ ~hm.ret THEN s6 - 100000000 ELSE s6,
             ctx, hm.arg)

Evaluated(state, ctx, empty_cells) ==
    Penalized(state, ctx, empty_cells, HeuristicSum(state, empty_cells),
              IF empty_cells = 0 THEN _has_possible_moves(state)
              ELSE [ret |-> TRUE, arg |-> state])

\* Advanced2048AI._evaluate_state.  ctx carries the solver fields the search
\* reads and writes: cache, heuristic_cache, nodes_evaluated and ticks (the
\* number of time checks that still find the budget unexpired, -1: no expiry),
\* hits, the cache hits of the call so far, entered, the chance and max nodes
\* entered so far, and late, those of them entered after the budget expired.
_evaluate_state(state, ctx) ==
    IF _get_state_key(state) \in DOMAIN ctx.heuristic_cache
    THEN [value |-> ctx.heuristic_cache[_get_state_key(state)], ctx |-> ctx, arg |-> state]
    ELSE Evaluated(state, ctx, Len(get_empty_cells(state)))

\* ------------------------------------------------------------ time budget
\* a time check that never finds the budget expired
TimeNever(ctx) == FALSE

\* `time.time() - self.start_time > self.time_limit`
TimeUp(ctx) == ctx.ticks = 0
\* a check that found the budget unexpired has been made
Tick(ctx) == IF ctx.ticks > 0 THEN [ctx EXCEPT !.ticks = ctx.ticks - 1] ELSE ctx

\* a chance or max node has been entered
Entered(ctx) == [ctx EXCEPT !.entered = @ + 1]

\* the return r of a node of kind `kind` entered with the solver fields ctx:
\* a node entered after the budget expired is noted in ctx.late with the
\* value it returns and the number of nodes entered below it
Noted(kind, state, depth, ctx, r) ==
    IF ctx.ticks = 0
    THEN [r EXCEPT !.ctx.late = @ \cup {[kind |-> kind,
                                         state_key |-> _get_state_key(state),
                                         depth |-> depth,
                                         value |-> r.value,
                                         expanded |-> r.ctx.entered - ctx.entered - 1]}]
    ELSE r

\* Python evaluates statement after statement: x is computed, then y
Then(x, y) == IF x = x THEN y ELSE y

\* -float('inf') and float('inf')
NegInf == -2000000000
PosInf == 2000000000

\* the k-th outcome of the chance loops: cell (k+1) div 2, tile 2 with
\* probability 0.9 first, then tile 4 with probability 0.1 (in tenths)
OutcomeCell(empty_cells, k) == empty_cells[(k + 1) \div 2]
OutcomeTile(k) == IF k % 2 = 1 THEN 2 ELSE 4
OutcomeProb(k) == IF k % 2 = 1 THEN 9 ELSE 1

\* `new_state = state.copy(); new_state.board[i][j] = tile_value`
Placed(state, c, tile_value) == [copy(state) EXCEPT !.board[c[1]][c[2]] = tile_value]

\* the share of one outcome in expected_value: probability * value / len(empty_cells)
Share(k, value, empty_cells) == (OutcomeProb(k) * value) \div (10 * Len(empty_cells))

\* `if state_key in self.cache: return self.cache[state_key]` at remaining
\* depth `depth`; the hit is noted in ctx.hits
Hit(state, depth, ctx) ==
    [value |-> ctx.cache[_get_state_key(state)],
     ctx |-> [ctx EXCEPT !.hits = @ \cup {[state_key |-> _get_state_key(state),
                                          depth |-> depth,
                                          value |-> ctx.cache[_get_state_key(state)]]}],
     arg |-> state]

\* end of a max node: `if not moves_possible: max_value = self._evaluate_state(state)`
MaxValue(l) ==
    IF l.moves_possible THEN [value |-> l.value, ctx |-> l.ctx, arg |-> l.arg]
    ELSE _evaluate_state(l.arg, l.ctx)

\* `self.cache[state_key] = max_value; self.nodes_evaluated += 1; return max_value`
Cached(state_key, e) ==
    [value |-> e.value,
     ctx |-> [e.ctx EXCEPT !.cache = (state_key :> e.value) @@ e.ctx.cache,
                           !.nodes_evaluated = e.ctx.nodes_evaluated + 1],
     arg |-> e.arg]

\* every direction counts
LegalUnchecked(sm) == TRUE

\* a direction counts at a max node or at the root when
\* `new_state and new_state.board != state.board`
Legal(sm) == sm.moved /\ sm.new_state.board # sm.arg.board

\* ------------------------------------------------------------ expectimax
RECURSIVE _expectimax_chance(_, _, _), _expectimax_max(_, _, _),
          ExpectimaxChanceLoop(_, _, _, _, _, _), ExpectimaxMaxLoop(_, _, _, _, _, _)

\* after the call of _expectimax_max for outcome k returned r
ExpectimaxChanceNext(state, depth, empty_cells, k, expected_value, r) ==
    Then(r.value,
         ExpectimaxChanceLoop(After(state, r.arg), depth, empty_cells, k + 1,
                              expected_value + Share(k, r.value, empty_cells), r.ctx))

\* body of the two nested loops of _expectimax_chance
ExpectimaxChanceLoop(state, depth, empty_cells, k, expected_value, ctx) ==
    IF k > 2 * Len(empty_cells)
    THEN [value |-> expected_value, ctx |-> ctx, arg |-> state]
    ELSE ExpectimaxChanceNext(state, depth, empty_cells, k, expected_value,
            _expectimax_max(Placed(state, OutcomeCell(empty_cells, k), OutcomeTile(k)),
                            depth - 1, ctx))

ExpectimaxChanceCells(state, depth, empty_cells, ctx) ==
    IF empty_cells = <<>> THEN _evaluate_state(state, ctx)
    ELSE ExpectimaxChanceLoop(state, depth, empty_cells, 1, 0, ctx)

\* Advanced2048AI._expectimax_chance
_expectimax_chance(state, depth, ctx) ==
    Noted("chance", state, depth, ctx,
          IF depth = 0 \/ TimeUp(ctx) THEN _evaluate_state(state, Entered(ctx))
          ELSE ExpectimaxChanceCells(state, depth, get_empty_cells(state),
                                     Tick(Entered(ctx))))

\* after the call of _expectimax_chance for direction k returned r
ExpectimaxMaxNext(sm, depth, k, max_value, r) ==
    Then(r.value,
         ExpectimaxMaxLoop(After(sm.arg, r.arg), depth, k + 1,
                           Max2(max_value, r.value), TRUE, r.ctx))

ExpectimaxMaxTry(sm, depth, k, max_value, moves_possible, ctx) ==
    IF Legal(sm)
    THEN ExpectimaxMaxNext(sm, depth, k, max_value,
                           _expectimax_chance(sm.new_state, depth - 1, ctx))
    ELSE ExpectimaxMaxLoop(sm.arg, depth, k + 1, max_value, moves_possible, ctx)

\* `for direction in Direction` of _expectimax_max
ExpectimaxMaxLoop(state, depth, k, max_value, moves_possible, ctx) ==
    IF k > 4
    THEN [value |-> max_value, moves_possible |-> moves_possible, ctx |-> ctx, arg |-> state]
    ELSE ExpectimaxMaxTry(_simulate_move(state, Direction[k]), depth, k,
                          max_value, moves_possible, ctx)

ExpectimaxMaxNode(state, depth, c1) ==
    IF _get_state_key(state) \in DOMAIN c1.cache
    THEN Hit(state, depth, c1)
    ELSE Cached(_get_state_key(state),
                MaxValue(ExpectimaxMaxLoop(state, depth, 1, NegInf, FALSE, c1)))

\* Advanced2048AI._expectimax_max
_expectimax_max(state, depth, ctx) ==
    Noted("max", state, depth, ctx,
          IF depth = 0 \/ TimeUp(ctx) THEN _evaluate_state(state, Entered(ctx))
          ELSE ExpectimaxMaxNode(state, depth, Tick(Entered(ctx))))

\* ------------------------------------------------------------ alpha-beta
RECURSIVE _alpha_beta_chance(_, _, _, _, _), _alpha_beta_max(_, _, _, _, _),
          AlphaBetaChanceLoop(_, _, _, _, _, _, _, _),
          AlphaBetaMaxLoop(_, _, _, _, _, _, _, _)

\* after the call of _alpha_beta_max for outcome k returned r
AlphaBetaChanceNext(state, depth, alpha, beta, empty_cells, k, expected_value, r) ==
    Then(r.value,
         AlphaBetaChanceLoop(After(state, r.arg), depth, alpha, beta, empty_cells, k + 1,
                             expected_value + Share(k, r.value, empty_cells), r.ctx))

\* body of the two nested loops of _alpha_beta_chance
AlphaBetaChanceLoop(state, depth, alpha, beta, empty_cells, k, expected_value, ctx) ==
    IF k > 2 * Len(empty_cells)
    THEN [value |-> expected_value, ctx |-> ctx, arg |-> state]
    ELSE AlphaBetaChanceNext(state, depth, alpha, beta, empty_cells, k, expected_value,
            _alpha_beta_max(Placed(state, OutcomeCell(empty_cells, k), OutcomeTile(k)),
                            depth - 1, alpha, beta, ctx))

AlphaBetaChanceCells(state, depth, alpha, beta, empty_cells, ctx) ==
    IF empty_cells = <<>> THEN _evaluate_state(state, ctx)
    ELSE AlphaBetaChanceLoop(state, depth, alpha, beta, empty_cells, 1, 0, ctx)

\* Advanced2048AI._alpha_beta_chance
_alpha_beta_chance(state, depth, alpha, beta, ctx) ==
    Noted("chance", state, depth, ctx,
          IF depth = 0 \/ TimeUp(ctx) THEN _evaluate_state(state, Entered(ctx))
          ELSE AlphaBetaChanceCells(state, depth, alpha, beta, get_empty_cells(state),
                                    Tick(Entered(ctx))))

\* a cutoff test with the comparison turned round
CutoffTurned(alpha, beta) == alpha <= beta

\* the cutoff test of _alpha_beta_max: `if beta <= alpha: break`
Cutoff(alpha, beta) == beta <= alpha

\* after the call of _alpha_beta_chance for direction k returned r:
\* max_value and alpha are raised, then the cutoff test
AlphaBetaMaxNext(sm, depth, alpha, beta, k, max_value, r) ==
    IF Then(r.value, Cutoff(Max2(alpha, r.value), beta))
    THEN [value |-> Max2(max_value, r.value), moves_possible |-> TRUE,
          ctx |-> r.ctx, arg |-> After(sm.arg, r.arg)]
    ELSE AlphaBetaMaxLoop(After(sm.arg, r.arg), depth, Max2(alpha, r.value), beta, k + 1,
                          Max2(max_value, r.value), TRUE, r.ctx)

AlphaBetaMaxTry(sm, depth, alpha, beta, k, max_value, moves_possible, ctx) ==
    IF Legal(sm)
    THEN AlphaBetaMaxNext(sm, depth, alpha, beta, k, max_value,
                          _alpha_beta_chance(sm.new_state, depth - 1, alpha, beta, ctx))
    ELSE AlphaBetaMaxLoop(sm.arg, depth, alpha, beta, k + 1, max_value, moves_possible, ctx)

\* `for direction in Direction` of _alpha_beta_max, with the break
AlphaBetaMaxLoop(state, depth, alpha, beta, k, max_value, moves_possible, ctx) ==
    IF k > 4
    THEN [value |-> max_value, moves_possible |-> moves_possible, ctx |-> ctx, arg |-> state]
    ELSE AlphaBetaMaxTry(_simulate_move(state, Direction[k]), depth, alpha, beta, k,
                         max_value, moves_possible, ctx)

AlphaBetaMaxNode(state, depth, alpha, beta, c1) ==
    IF _get_state_key(state) \in DOMAIN c1.cache
    THEN Hit(state, depth, c1)
    ELSE Cached(_get_state_key(state),
                MaxValue(AlphaBetaMaxLoop(state, depth, alpha, beta, 1, NegInf, FALSE, c1)))

\* Advanced2048AI._alpha_beta_max
_alpha_beta_max(state, depth, alpha, beta, ctx) ==
    Noted("max", state, depth, ctx,
          IF depth = 0 \/ TimeUp(ctx) THEN _evaluate_state(state, Entered(ctx))
          ELSE AlphaBetaMaxNode(state, depth, alpha, beta, Tick(Entered(ctx))))

\* ------------------------------------------------------------ MCTS
\* 1000 * ln(n), n = 1..20, rounded
LnMilli == <<0, 693, 1099, 1386, 1609, 1792, 1946, 2079, 2197, 2303, 2398, 2485,
             2565, 2639, 2708, 2773, 2833, 2890, 2944, 2996>>

\* math.sqrt on the fixed-point scale: the integer square root
ISqrt(x) == CHOOSE r \in 0..300 : r * r <= x /\ (r + 1) * (r + 1) > x

\* MCTSNode.__init__; children lists the keys of the children dict in
\* insertion order, a child of the node at path p is at Append(p, direction)
MCTSNode(state) == [state |-> state, visits |-> 0, total_reward |-> 0, children |-> <<>>]

Parent(path) == SubSeq(path, 1, Len(path) - 1)

\* MCTSNode.is_leaf
is_leaf(node) == Len(node.children) = 0

\* MCTSNode.ucb1_value with exploration_constant = sqrt(2):
\* sqrt(2) * sqrt(ln(N) / n) = sqrt(2 ln(N) / n), in hundredths
ucb1_value(t, path) ==
    IF t[path].visits = 0 THEN PosInf
    ELSE (t[path].total_reward \div t[path].visits)
         + ISqrt((2 * LnMilli[t[Parent(path)].visits] * 10) \div t[path].visits)

\* a selection that keeps the child of the lower value
Lower(t, c, best) == IF ucb1_value(t, c) < ucb1_value(t, best) THEN c ELSE best

\* max(node.children.values(), key=ucb1): the first child of maximal value
RECURSIVE MaxChild(_, _, _, _)
Better(t, c, best) == IF ucb1_value(t, c) > ucb1_value(t, best) THEN c ELSE best
MaxChild(t, path, k, best) ==
    IF k > Len(t[path].children) THEN best
    ELSE MaxChild(t, path, k + 1, Better(t, Append(path, t[path].children[k]), best))

\* the while loop of _mcts_select
RECURSIVE Descend(_, _)
Descend(t, path) ==
    IF is_leaf(t[path]) THEN path
    ELSE Descend(t, MaxChild(t, path, 2, Append(path, t[path].children[1])))

\* `self.children[direction] = MCTSNode(new_state, self, direction)`
AddChild(t, path, direction, new_state) ==
    (Append(path, direction) :> MCTSNode(new_state)) @@
    [t EXCEPT ![path].children = Append(t[path].children, direction)]

\* MCTSNode.expand: children for the directions _simulate_move accepts
RECURSIVE ExpandFrom(_, _, _)
Expanded(t, path, k, sm) ==
    IF sm.moved
    THEN ExpandFrom(AddChild([t EXCEPT ![path].state = sm.arg], path, Direction[k],
                             sm.new_state),
                    path, k + 1)
    ELSE ExpandFrom([t EXCEPT ![path].state = sm.arg], path, k + 1)
ExpandFrom(t, path, k) ==
    IF k > 4 THEN t
    ELSE Expanded(t, path, k, _simulate_move(t[path].state, Direction[k]))
expand(t, path) == ExpandFrom(t, path, 1)

\* `if node.visits > 0: node.expand()` and `return node`
Selected(t, node) ==
    [node |-> node, tree |-> IF t[node].visits > 0 THEN expand(t, node) ELSE t]

\* Advanced2048AI._mcts_select: returns the selected node and the tree
_mcts_select(t) == Selected(t, Descend(t, <<>>))

\* `directions` of one rollout ply: the directions _simulate_move accepts;
\* returns them with current_state as the calls left it
RECURSIVE RolloutDirections(_, _, _)
RolloutTried(sm, k, directions) ==
    RolloutDirections(sm.arg, k + 1,
                      IF sm.moved THEN Append(directions, Direction[k]) ELSE directions)
RolloutDirections(current_state, k, directions) ==
    IF k > 4 THEN [directions |-> directions, arg |-> current_state]
    ELSE RolloutTried(_simulate_move(current_state, Direction[k]), k, directions)

\* Advanced2048AI._add_random_tile: the states the call can leave
RandomTiles(state, empty_cells) ==
    IF empty_cells = <<>> THEN {state}
    ELSE {[state EXCEPT !.board[empty_cells[c][1]][empty_cells[c][2]] = v] :
             c \in 1..Len(empty_cells), v \in {2, 4}}
_add_random_tile(state) == RandomTiles(state, get_empty_cells(state))

\* `new_state = self._simulate_move(current_state, direction)` for the chosen
\* direction, then `if new_state: current_state = self._add_random_tile(new_state)`
RolloutMoved(arg1, sm) ==
    IF sm.moved
    THEN {[cur |-> ns, arg |-> After(After(arg1, sm.arg), ns)] :
             ns \in _add_random_tile(sm.new_state)}
    ELSE {[cur |-> sm.arg, arg |-> After(arg1, sm.arg)]}

RolloutChoice(r, ds) ==
    UNION {RolloutMoved(After(r.arg, ds.arg), _simulate_move(ds.arg, ds.directions[n])) :
             n \in 1..Len(ds.directions)}

\* one ply of the while loop of _mcts_simulate from r = [cur, arg] (cur the
\* current_state, arg the argument of the call as it is now): the set of
\* r after the ply; empty when `not directions`
RolloutPly(r) == RolloutChoice(r, RolloutDirections(r.cur, 1, <<>>))

\* `while moves < 100` of _mcts_simulate, all random choices followed:
\* the set of [cur, arg] the loop can end with
RECURSIVE RolloutLoop(_, _, _)
RolloutSplit(frontier, stuck, moves, finished) ==
    RolloutLoop(UNION {RolloutPly(r) : r \in frontier \ stuck},
                moves + 1, finished \cup stuck)
RolloutLoop(frontier, moves, finished) ==
    IF frontier = {} \/ moves >= 100 THEN finished \cup frontier
    ELSE RolloutSplit(frontier, {r \in frontier : RolloutPly(r) = {}}, moves, finished)

\* `return self._evaluate_state(current_state)`
RolloutValue(r, e) == [value |-> e.value, ctx |-> e.ctx, arg |-> After(r.arg, e.arg)]

\* Advanced2048AI._mcts_simulate: the set of [value, ctx, arg] it can return
_mcts_simulate(state, ctx) ==
    {RolloutValue(r, _evaluate_state(r.cur, ctx)) :
        r \in RolloutLoop({[cur |-> copy(state), arg |-> state]}, 0, {})}

\* a backpropagation that stops at the simulated node
BackpropagatedNode(t, path, reward) ==
    [t EXCEPT ![path].visits = t[path].visits + 1,
              ![path].total_reward = t[path].total_reward + reward]

\* Advanced2048AI._mcts_backpropagate
RECURSIVE _mcts_backpropagate(_, _, _)
Visited(t, path, reward) ==
    [t EXCEPT ![path].visits = t[path].visits + 1,
              ![path].total_reward = t[path].total_reward + reward]
_mcts_backpropagate(t, path, reward) ==
    IF path = <<>> THEN Visited(t, path, reward)
    ELSE _mcts_backpropagate(Visited(t, path, reward), Parent(path), reward)

\* a final loop that lets a later child of equal visits win
RECURSIVE MctsLastBest(_, _, _, _)
MctsLastBest(t, k, best_m, best_visits) ==
    IF k > Len(t[<<>>].children) THEN best_m
    ELSE IF t[<<t[<<>>].children[k]>>].visits >= best_visits
         THEN MctsLastBest(t, k + 1, t[<<>>].children[k], t[<<t[<<>>].children[k]>>].visits)
         ELSE MctsLastBest(t, k + 1, best_m, best_visits)

\* the final loop of _mcts_decision over root.children.items()
RECURSIVE MctsBest(_, _, _, _)
MctsBest(t, k, best_m, best_visits) ==
    IF k > Len(t[<<>>].children) THEN best_m
    ELSE IF t[<<t[<<>>].children[k]>>].visits > best_visits
         THEN MctsBest(t, k + 1, t[<<>>].children[k], t[<<t[<<>>].children[k]>>].visits)
         ELSE MctsBest(t, k + 1, best_m, best_visits)

\* ------------------------------------------------------------ decision
\* a comparison that lets a later direction of equal value win
ImprovesOrTies(value, best) == value >= best

\* `if value > best_value` of the decision functions
Improves(value, best) == value > best

\* best_move and best_value after direction k has been given value
Best(k, value, best) ==
    IF Improves(value, best.best_value)
    THEN [best_move |-> Direction[k], best_value |-> value] ELSE best

\* Advanced2048AI._expectimax_decision as one call on a solver with the
\* fields ctx: the locals [best_move, best_value] at `return best_move`
RECURSIVE ExpectimaxDecisionLoop(_, _, _, _, _)
ExpectimaxDecisionNext(sm, depth, k, best, r) ==
    IF TimeUp(r.ctx) THEN Best(k, r.value, best)
    ELSE ExpectimaxDecisionLoop(After(sm.arg, r.arg), depth, k + 1,
                                Best(k, r.value, best), Tick(r.ctx))
ExpectimaxDecisionTry(sm, depth, k, best, ctx) ==
    IF Legal(sm)
    THEN ExpectimaxDecisionNext(sm, depth, k, best,
                                _expectimax_chance(sm.new_state, depth - 1, ctx))
    ELSE ExpectimaxDecisionLoop(sm.arg, depth, k + 1, best, ctx)
ExpectimaxDecisionLoop(state, depth, k, best, ctx) ==
    IF k > 4 THEN best
    ELSE ExpectimaxDecisionTry(_simulate_move(state, Direction[k]), depth, k, best, ctx)
_expectimax_decision(state, depth, ctx) ==
    ExpectimaxDecisionLoop(state, depth, 1,
                           [best_move |-> NoMove, best_value |-> NegInf], ctx)

\* ------------------------------------------------------------ factory
\* a factory whose default depth is the easy one
create_with_easy_default(algorithm_name, difficulty_name) ==
    [algorithm |-> IF algorithm_name \in AIAlgorithm THEN algorithm_name ELSE "expectimax",
     max_depth |-> CASE difficulty_name = "normal" -> 4
                     [] difficulty_name = "hard" -> 5
                     [] difficulty_name = "expert" -> 6
                     [] OTHER -> 3,
     difficulty |-> difficulty_name,
     mcts_simulations |-> IF difficulty_name = "expert" THEN 1000 ELSE 500]

\* create_ai_solver and Advanced2048AI.__init__
create_ai_solver(algorithm_name, difficulty_name) ==
    [algorithm |-> IF algorithm_name \in AIAlgorithm THEN algorithm_name ELSE "expectimax",
     max_depth |-> CASE difficulty_name = "easy" -> 3
                     [] difficulty_name = "normal" -> 4
                     [] difficulty_name = "hard" -> 5
                     [] difficulty_name = "expert" -> 6
                     [] OTHER -> 6,
     difficulty |-> difficulty_name,
     mcts_simulations |-> IF difficulty_name = "expert" THEN 1000 ELSE 500]

\* ------------------------------------------------- GameEngine (src/app.py)
\* a merge loop that adds up any two neighbours
RECURSIVE MergeAnyLoop(_, _, _, _)
MergeAnyLoop(filtered, i, result, gained) ==
    IF i > Len(filtered) THEN [result |-> result, gained |-> gained]
    ELSE IF i < Len(filtered)
         THEN MergeAnyLoop(filtered, i + 2, Append(result, filtered[i] + filtered[i + 1]),
                           gained + filtered[i] + filtered[i + 1])
         ELSE MergeAnyLoop(filtered, i + 1, Append(result, filtered[i]), gained)

\* GameEngine._move_and_merge_array: [result, gained score]
RECURSIVE EngineMergeLoop(_, _, _, _)
EngineMergeLoop(filtered, i, result, gained) ==
    IF i > Len(filtered) THEN [result |-> result, gained |-> gained]
    ELSE IF i < Len(filtered) /\ filtered[i] = filtered[i + 1]
         THEN EngineMergeLoop(filtered, i + 2, Append(result, filtered[i] * 2),
                              gained + filtered[i] * 2)
         ELSE EngineMergeLoop(filtered, i + 1, Append(result, filtered[i]), gained)
EnginePadded(m, size) ==
    [result |-> m.result \o Zeros(size - Len(m.result)), gained |-> m.gained]
_move_and_merge_array(array, size) ==
    EnginePadded(EngineMergeLoop(NonZero(array), 1, <<>>, 0), size)

Reverse(s) == [i \in 1..Len(s) |-> s[Len(s) + 1 - i]]

\* GameEngine._move_up/_move_down/_move_left/_move_right on e = [board, score]:
\* line n of the board (a column for up/down, a row for left/right, reversed
\* for down/right) is merged and written back when it changed
RECURSIVE EngineLines(_, _, _, _)
EngineLine(board, direction, n) ==
    IF direction \in {"up", "down"} THEN Column(board, n) ELSE board[n]
EngineOriented(line, direction) ==
    IF direction \in {"down", "right"} THEN Reverse(line) ELSE line
EngineWritten(e, direction, n, moved, line, new_line, gained) ==
    IF line # new_line
    THEN EngineLines([board |-> IF direction \in {"up", "down"}
                                THEN SetColumn(e.board, n, new_line)
                                ELSE [e.board EXCEPT ![n] = new_line],
                      score |-> e.score + gained],
                     direction, n + 1, TRUE)
    ELSE EngineLines([e EXCEPT !.score = e.score + gained], direction, n + 1, moved)
EngineMerged(e, direction, n, moved, line, m) ==
    EngineWritten(e, direction, n, moved, line, EngineOriented(m.result, direction), m.gained)
EngineLines(e, direction, n, moved) ==
    IF n > Len(e.board) THEN [moved |-> moved, board |-> e.board, score |-> e.score]
    ELSE EngineMerged(e, direction, n, moved, EngineLine(e.board, direction, n),
            _move_and_merge_array(
                EngineOriented(EngineLine(e.board, direction, n), direction),
                Len(e.board)))
EngineSlide(board, score, direction) ==
    EngineLines([board |-> board, score |-> score], direction, 1, FALSE)

\* a terminal test that looks at the empty cells only
GameOverWhenFull(board) == ~ \E i, j \in 1..Len(board) : board[i][j] = 0

\* GameEngine._check_game_over
_check_game_over(board) ==
    IF \E i, j \in 1..Len(board) : board[i][j] = 0 THEN FALSE
    ELSE ~ \E i, j \in 1..Len(board) :
             \E a \in {<<i - 1, j>>, <<i + 1, j>>, <<i, j - 1>>, <<i, j + 1>>} :
                 /\ a[1] \in 1..Len(board) /\ a[2] \in 1..Len(board)
                 /\ board[a[1]][a[2]] = board[i][j]

\* GameEngine.get_possible_moves: the directions, in enum order, for which
\* move() on a test engine holding a copy of the board returns True
RECURSIVE PossibleFrom(_, _)
PossibleFrom(board, k) ==
    IF k > 4 THEN <<>>
    ELSE (IF EngineSlide(board, 0, Direction[k]).moved THEN <<Direction[k]>> ELSE <<>>)
         \o PossibleFrom(board, k + 1)
get_possible_moves(board) == PossibleFrom(board, 1)

\* the choice of AISolver.get_best_move among possible_moves.  The scores
\* of the moves carry the random jitter of line 493, so with several
\* possible moves the choice is left open among them.
BestOf(possible_moves) ==
    IF possible_moves = <<>> THEN {NoMove}
    ELSE IF Len(possible_moves) = 1 THEN {possible_moves[1]}
    ELSE {possible_moves[n] : n \in 1..Len(possible_moves)}

\* AISolver.get_best_move: the set of values it can return
AISolver_get_best_move(is_thinking, game_over, board) ==
    IF is_thinking \/ game_over THEN {NoMove}
    ELSE BestOf(get_possible_moves(board))

\* GameDifficulty (values of the enum) and AISolver.difficulty_settings;
\* randomness in thousandths
GameDifficulty == {"easy", "medium", "hard", "expert"}
difficulty_settings ==
    [easy |-> [depth |-> 2, randomness |-> 200],
     medium |-> [depth |-> 3, randomness |-> 80],
     hard |-> [depth |-> 4, randomness |-> 30],
     expert |-> [depth |-> 5, randomness |-> 5]]

\* AISolver.__init__: the fields of a new solver of the live engine
AISolver_init == [difficulty |-> "medium", max_depth |-> 3, is_thinking |-> FALSE]

\* AISolver.set_difficulty: the fields after the call (the action clears
\* evaluation_cache)
set_difficulty(self, difficulty) ==
    [self EXCEPT !.difficulty = difficulty,
                 !.max_depth = difficulty_settings[difficulty].depth]

\* ------------------------------------------ AISolver evaluation cache
EmptyMap == [x \in {} |-> 0]

Min2(a, b) == IF a <= b THEN a ELSE b

\* pow(n, 1.5) for n = 1..4, in thousandths
Pow15Milli == <<1000, 2828, 5196, 8000>>

\* AISolver._get_position_weight (rows and columns from 1), in thousandths
_get_position_weight(row, col, size) ==
    Pow15Milli[size - Min2(Min2(row - 1, size - row), Min2(col - 1, size - col))]

\* the cells of a board row after row
Cells(board) ==
    [n \in 1..(Len(board) * Len(board)) |->
        [row |-> ((n - 1) \div Len(board)) + 1, col |-> ((n - 1) % Len(board)) + 1,
         tile |-> board[((n - 1) \div Len(board)) + 1][((n - 1) % Len(board)) + 1]]]

\* AISolver._evaluate_positions, in thousandths; tile.bit_length() - 1 is Log2
_evaluate_positions(board) ==
    SumTo([n \in 1..Len(Cells(board)) |->
              IF Cells(board)[n].tile > 0
              THEN Cells(board)[n].tile * Log2(Cells(board)[n].tile)
                   * _get_position_weight(Cells(board)[n].row, Cells(board)[n].col, Len(board))
              ELSE 0],
          Len(Cells(board)))

\* AISolver._get_monotonicity_score
_get_monotonicity_score(array) ==
    - Min2(SumTo([i \in 1..(Len(array) - 1) |->
                    IF Log2(array[i]) < Log2(array[i + 1])
                    THEN Log2(array[i + 1]) - Log2(array[i]) ELSE 0], Len(array) - 1),
           SumTo([i \in 1..(Len(array) - 1) |->
                    IF Log2(array[i]) > Log2(array[i + 1])
                    THEN Log2(array[i]) - Log2(array[i + 1]) ELSE 0], Len(array) - 1))

\* AISolver._evaluate_monotonicity
_evaluate_monotonicity(board) ==
    SumTo([i \in 1..Len(board) |->
              _get_monotonicity_score(board[i]) + _get_monotonicity_score(Column(board, i))],
          Len(board))

\* AISolver._evaluate_smoothness
_evaluate_smoothness(board) ==
    SumTo([n \in 1..Len(Cells(board)) |->
              IF Cells(board)[n].tile > 0
              THEN (IF Cells(board)[n].col < Len(board)
                       /\ board[Cells(board)[n].row][Cells(board)[n].col + 1] > 0
                    THEN - Abs(Log2(Cells(board)[n].tile)
                               - Log2(board[Cells(board)[n].row][Cells(board)[n].col + 1]))
                    ELSE 0)
                 + (IF Cells(board)[n].row < Len(board)
                       /\ board[Cells(board)[n].row + 1][Cells(board)[n].col] > 0
                    THEN - Abs(Log2(Cells(board)[n].tile)
                               - Log2(board[Cells(board)[n].row + 1][Cells(board)[n].col]))
                    ELSE 0)
              ELSE 0],
          Len(Cells(board)))

\* AISolver._evaluate_empty_cells: pow(len(empty_cells), 2)
_evaluate_empty_cells(board) ==
    Cardinality({n \in 1..Len(Cells(board)) : Cells(board)[n].tile = 0})
    * Cardinality({n \in 1..Len(Cells(board)) : Cells(board)[n].tile = 0})

\* the first cell, row after row, that holds the largest tile
MaxTileCell(board) ==
    Cells(board)[CHOOSE n \in 1..Len(Cells(board)) :
                    /\ \A m \in 1..Len(Cells(board)) : Cells(board)[m].tile <= Cells(board)[n].tile
                    /\ \A m \in 1..(n - 1) : Cells(board)[m].tile < Cells(board)[n].tile]

\* AISolver._evaluate_max_tile_position
_evaluate_max_tile_position(board) ==
    IF MaxTileCell(board).tile = 0 THEN 0
    ELSE IF MaxTileCell(board).row \in {1, Len(board)} /\ MaxTileCell(board).col \in {1, Len(board)}
    THEN MaxTileCell(board).tile * 2
    ELSE IF MaxTileCell(board).row \in {1, Len(board)} \/ MaxTileCell(board).col \in {1, Len(board)}
    THEN MaxTileCell(board).tile
    ELSE 0

\* the score _evaluate_board computes for a board, in thousandths: the
\* five terms with the factors 1.5, 2.0, 0.2, 4.0 and 1.8
BoardScore(board) ==
      (_evaluate_positions(board) * 15) \div 10
    + _evaluate_monotonicity(board) * 2000
    + _evaluate_smoothness(board) * 200
    + _evaluate_empty_cells(board) * 4000
    + _evaluate_max_tile_position(board) * 1800

\* AISolver._get_board_key: the cells row after row, joined by commas
_get_board_key(board) == [n \in 1..Len(Cells(board)) |-> Cells(board)[n].tile]

\* AISolver.max_cache_size
max_cache_size == 10000

\* a cache that is never found full
CacheNeverFull(evaluation_cache) == FALSE

\* `len(self.evaluation_cache) >= self.max_cache_size`
CacheFull(evaluation_cache) == Cardinality(DOMAIN evaluation_cache) >= max_cache_size

\* the end of _evaluate_board: the cache is cleared when full, the score is
\* stored and returned
ScoreCached(board_key, score, evaluation_cache) ==
    [value |-> score,
     evaluation_cache |-> (board_key :> score) @@
                          (IF CacheFull(evaluation_cache) THEN EmptyMap ELSE evaluation_cache)]

\* AISolver._evaluate_board on a solver with the cache evaluation_cache:
\* the value returned and the cache after the call
_evaluate_board(board, evaluation_cache) ==
    IF _get_board_key(board) \in DOMAIN evaluation_cache
    THEN [value |-> evaluation_cache[_get_board_key(board)],
          evaluation_cache |-> evaluation_cache]
    ELSE ScoreCached(_get_board_key(board), BoardScore(board), evaluation_cache)

\* ------------------------------------------ GameEngine state (src/app.py)
max_history_size == 10

\* a _save_state that drops no entry
SaveUncapped(e) ==
    [e EXCEPT !.history = Append(e.history,
                                 [board |-> e.board, score |-> e.score, moves |-> e.moves])]

\* GameEngine._save_state on the engine e
_save_state(e) ==
    LET history == Append(e.history,
                          [board |-> e.board, score |-> e.score, moves |-> e.moves])
    IN [e EXCEPT !.history = IF Len(history) > max_history_size
                             THEN Tail(history) ELSE history]

\* GameEngine._add_random_tile: the boards the call can leave
EngineAddRandomTile(board) ==
    LET empty_cells == {c \in (1..Len(board)) \X (1..Len(board)) : board[c[1]][c[2]] = 0}
    IN IF empty_cells = {} THEN {board}
       ELSE {[board EXCEPT ![c[1]][c[2]] = value] : c \in empty_cells, value \in {2, 4}}

\* GameEngine.initialize: the engines the call can leave
initialize(e) ==
    {_save_state([e EXCEPT !.board = b2, !.is_game_over = FALSE, !.has_won = FALSE,
                           !.continue_after_win = FALSE, !.history = <<>>]) :
        b2 \in UNION {EngineAddRandomTile(b1) :
                         b1 \in EngineAddRandomTile([i \in 1..e.size |-> Zeros(e.size)])}}

\* GameEngine.__init__
GameEngine(size) ==
    initialize([size |-> size, board |-> <<>>, score |-> 0, moves |-> 0,
                is_game_over |-> FALSE, has_won |-> FALSE,
                continue_after_win |-> FALSE, history |-> <<>>])

\* GameEngine._check_win
_check_win(e) ==
    IF e.continue_after_win THEN FALSE
    ELSE \E i, j \in 1..e.size : e.board[i][j] = 2048

\* GameEngine.get_game_state, then asdict and json.dump of
\* Storage.save_game_state: the fields as the file keeps them (integers,
\* booleans and lists of them; start_time is left out)
get_game_state(e) ==
    [board |-> e.board, score |-> e.score, moves |-> e.moves, size |-> e.size,
     is_game_over |-> e.is_game_over, has_won |-> e.has_won,
     continue_after_win |-> e.continue_after_win, history |-> e.history]

\* ------------------------------------------ Fancy2048App (src/app.py)
\* s = [engine, storage, app]: the engine, the file and the fields of the
\* application; app.callbacks tells whether the engine in use is the one
\* _setup_callbacks has set the callbacks of
NoFile == [exists |-> FALSE]

\* Fancy2048App._save_game_state
_save_game_state(s) ==
    IF ~s.app.is_initialized THEN s
    ELSE [s EXCEPT !.storage = get_game_state(s.engine)]

\* _notify_board_update: _handle_board_update, _auto_save_game_state
_handle_board_update(s) ==
    IF s.app.callbacks /\ s.engine.moves % 3 = 0 THEN _save_game_state(s) ELSE s

\* _notify_move: _handle_move
_handle_move(s) ==
    IF s.app.callbacks /\ s.engine.moves % 5 = 0 THEN _save_game_state(s) ELSE s

\* the win check of GameEngine.move with _handle_game_win
WinChecked(s) ==
    IF ~s.engine.has_won /\ _check_win(s.engine)
    THEN IF s.app.callbacks THEN _save_game_state([s EXCEPT !.engine.has_won = TRUE])
         ELSE [s EXCEPT !.engine.has_won = TRUE]
    ELSE s

\* a move that does not look whether the game is over
GameOverUnchecked(s) == s

\* the game-over check of GameEngine.move with _handle_game_over
GameOverChecked(s) ==
    IF _check_game_over(s.engine.board)
    THEN IF s.app.callbacks
         THEN _save_game_state([s EXCEPT !.engine.is_game_over = TRUE,
                                         !.app.auto_play_active = FALSE])
         ELSE [s EXCEPT !.engine.is_game_over = TRUE]
    ELSE s

\* a move that has moved and places no tile
MovedBare(s, sl) ==
    {[ret |-> TRUE,
      s |-> GameOverChecked(WinChecked(_handle_move(_handle_board_update(
               [s EXCEPT !.engine = _save_state([s.engine EXCEPT !.board = sl.board,
                                                                 !.score = sl.score,
                                                                 !.moves = s.engine.moves + 1])]))))]}

\* GameEngine.move after the slide sl = [moved, board, score] has moved
Moved(s, sl) ==
    LET saved == _save_state([s.engine EXCEPT !.board = sl.board, !.score = sl.score,
                                              !.moves = s.engine.moves + 1])
    IN {[ret |-> TRUE,
         s |-> GameOverChecked(WinChecked(_handle_move(_handle_board_update(
                  [s EXCEPT !.engine = [saved EXCEPT !.board = b]]))))] :
           b \in EngineAddRandomTile(sl.board)}

\* GameEngine.move(direction): the set of [ret, s] the call can end with
move(s, direction) ==
    IF s.engine.is_game_over THEN {[ret |-> FALSE, s |-> s]}
    ELSE LET sl == EngineSlide(s.engine.board, s.engine.score, direction)
         IN IF sl.moved THEN Moved(s, sl)
            ELSE {[ret |-> FALSE, s |-> s]}

\* GameEngine.undo
undo(s) ==
    IF Len(s.engine.history) < 2 THEN [ret |-> FALSE, s |-> s]
    ELSE LET history == SubSeq(s.engine.history, 1, Len(s.engine.history) - 1)
             previous_state == history[Len(history)]
         IN [ret |-> TRUE,
             s |-> _handle_board_update(
                      [s EXCEPT !.engine.history = history,
                                !.engine.board = previous_state.board,
                                !.engine.score = previous_state.score,
                                !.engine.moves = previous_state.moves,
                                !.engine.is_game_over = FALSE])]

\* GameEngine.new_game: the states the call can leave
EngineNewGame(s) ==
    {_handle_board_update([s EXCEPT !.engine = e]) :
        e \in initialize([s.engine EXCEPT !.score = 0, !.moves = 0])}

\* Fancy2048App.new_game
new_game(s) ==
    {_save_game_state(n) : n \in EngineNewGame([s EXCEPT !.app.auto_play_active = FALSE])}

\* GameEngine.load_game_state(state)
load_game_state(s, state) ==
    _handle_board_update(
        [s EXCEPT !.engine = [size |-> state.size, board |-> state.board,
                              score |-> state.score, moves |-> state.moves,
                              is_game_over |-> state.is_game_over,
                              has_won |-> state.has_won,
                              continue_after_win |-> state.continue_after_win,
                              history |-> state.history]])

\* Fancy2048App._load_saved_game: Storage.load_game_state returns None
\* without the file
_load_saved_game(s) ==
    IF s.storage # NoFile THEN {load_game_state(s, s.storage)}
    ELSE EngineNewGame(s)

\* Fancy2048App._apply_settings for the board size: the settings are
\* [board_size |-> n], board_size 0 when settings.json has no such key.  A
\* size other than that of the engine replaces the engine by a new one, on
\* which no callback is set.
_apply_settings(s, settings) ==
    IF settings.board_size # 0 /\ settings.board_size # s.engine.size
    THEN {[s EXCEPT !.engine = e, !.app.callbacks = FALSE] :
             e \in GameEngine(settings.board_size)}
    ELSE {s}

\* Fancy2048App.__init__(size) in a directory without game_state.json,
\* settings.json holding `settings`
Fancy2048App(size, settings) ==
    {[l EXCEPT !.app.is_initialized = TRUE] :
        l \in UNION {_load_saved_game(a) :
            a \in UNION {_apply_settings(
                            [engine |-> e, storage |-> NoFile,
                             app |-> [is_initialized |-> FALSE,
                                      auto_play_active |-> FALSE,
                                      callbacks |-> TRUE]], settings) :
                         e \in GameEngine(size)}}}

\* Fancy2048App.stop_auto_play
stop_auto_play(s) == [s EXCEPT !.app.auto_play_active = FALSE]

\* Fancy2048App.start_auto_play (ai_solver is set by initialize)
start_auto_play(s) ==
    IF s.app.auto_play_active THEN [ret |-> FALSE, s |-> s]
    ELSE IF s.engine.is_game_over THEN [ret |-> FALSE, s |-> s]
    ELSE [ret |-> TRUE, s |-> [s EXCEPT !.app.auto_play_active = TRUE]]

\* Fancy2048App.toggle_auto_play
toggle_auto_play(s) ==
    IF s.app.auto_play_active THEN [ret |-> FALSE, s |-> stop_auto_play(s)]
    ELSE start_auto_play(s)

\* Fancy2048App.play_auto_move after get_best_move has returned best_move
AutoMoved(s, best_move) ==
    IF best_move = NoMove THEN {[ret |-> FALSE, s |-> stop_auto_play(s)]}
    ELSE {IF r.ret THEN r ELSE [ret |-> FALSE, s |-> stop_auto_play(r.s)] :
             r \in move(s, best_move)}

\* Fancy2048App.play_auto_move: the set of [ret, s] the call can end with
play_auto_move(s, is_thinking) ==
    IF ~s.app.auto_play_active \/ s.engine.is_game_over
    THEN {[ret |-> FALSE, s |-> stop_auto_play(s)]}
    ELSE UNION {AutoMoved(s, best_move) :
                   best_move \in AISolver_get_best_move(is_thinking, s.engine.is_game_over,
                                                        s.engine.board)}

\* ------------------------------------------------------------------ state
VARIABLES
    game_state,       \* the GameState object the caller passes to get_best_move
    input,            \* its content when the call started
    mv_dir,           \* direction of the transition applied (transition runs)
    mv,               \* what _simulate_move returned for it
    caller,           \* "Advanced2048AI" or "AISolver": whose get_best_move runs
    algo_name,        \* the algorithm name given to create_ai_solver
    solver,           \* Advanced2048AI fields: algorithm, max_depth, difficulty,
                      \* mcts_simulations; AISolver fields: difficulty,
                      \* max_depth, is_thinking
    cache,            \* Advanced2048AI.cache
    heuristic_cache,  \* Advanced2048AI.heuristic_cache
    nodes_evaluated,  \* Advanced2048AI.nodes_evaluated
    pc,               \* where the call stands
    k,                \* index of the root direction the decision loop is at
    best_move,        \* local best_move of the decision function
    best_value,       \* local best_value
    alpha,            \* local alpha of _alpha_beta_decision
    expired,          \* the time budget has been exceeded
    evaluated,        \* the root moves evaluated so far: <<[direction, value]>>
    result,           \* what get_best_move returned
    tree,             \* the MCTS nodes by path from the root
    sims,             \* iterations of the MCTS loop begun
    is_game_over,     \* GameEngine.is_game_over of the live engine (AISolver)
    calls,            \* get_best_move calls made on the solver so far
    hits,             \* the hits of the transposition cache in the call:
                      \* [state_key, depth, value] of the MAX node served
    late,             \* the chance and max nodes of the call entered after
                      \* the budget expired: [kind, state_key, depth, value,
                      \* expanded], expanded the nodes entered below the node
    engine,           \* the GameEngine of the application: size, board, score,
                      \* moves, is_game_over, has_won, continue_after_win, history
    storage,          \* the content of game_state.json, NoFile without the file
    app,              \* Fancy2048App fields: is_initialized, auto_play_active;
                      \* callbacks: the engine in use has the callbacks set
    observed,         \* what the caller of the application has observed: the
                      \* last calls it made and the statistics it read
    call,             \* a call made on one method by itself: the method, its
                      \* arguments beside the state and what it returned
    threads,          \* the request threads of the web server inside
                      \* AISolver.get_best_move: where each stands and what
                      \* its last call returned
    evaluation_cache, \* AISolver.evaluation_cache: score by board key
    evaluated_boards  \* the number of boards the AISolver has evaluated

appVars == <<engine, storage, app, observed>>

callVars == <<call, threads>>

cacheVars == <<evaluation_cache, evaluated_boards>>

vars == <<game_state, input, mv_dir, mv, caller, algo_name, solver, cache,
          heuristic_cache, nodes_evaluated, pc, k, best_move, best_value, alpha,
          expired, evaluated, result, tree, sims, is_game_over, calls, hits, late, appVars, cacheVars, callVars>>

searchVars == <<caller, algo_name, solver, cache, heuristic_cache, nodes_evaluated,
                pc, k, best_move, best_value, alpha, expired, evaluated, result,
                tree, sims, is_game_over, calls, hits, late>>

\* all size x size boards over the tile values vals
BoardsOver(size, vals) == [1..size -> [1..size -> vals]]

\* the concrete boards of the scenarios
ScenarioMerge == << <<2, 2, 0, 0>>, <<0, 0, 0, 0>>, <<0, 0, 0, 0>>, <<0, 0, 0, 0>> >>
Scenario2424 == << <<2, 4, 2, 4>>, <<2, 4, 2, 4>>, <<2, 4, 2, 4>>, <<2, 4, 2, 4>> >>
\* a full 4x4 board without equal neighbours
Checker4 == << <<2, 4, 2, 4>>, <<4, 2, 4, 2>>, <<2, 4, 2, 4>>, <<4, 2, 4, 2>> >>

NoResult == [moved |-> FALSE]
NoTree == EmptyMap

\* no method has been called by itself
NoCall == [function |-> "none"]

\* no application runs beside the solver
\* the request threads of app.run(threaded=True) that serve one session
Threads == {1, 2}
NoThreads == [t \in Threads |-> [pc |-> "idle", returned |-> "nothing"]]

NoEngine == [size |-> 0]
NoApp == [is_initialized |-> FALSE, auto_play_active |-> FALSE, callbacks |-> FALSE]
NothingObserved == [calls |-> <<>>, stats_before |-> [score |-> 0, moves |-> 0],
                    before_move |-> [board |-> <<>>, score |-> 0, moves |-> 0]]

\* the fields of a solver at rest and the locals of a call not yet made
SolverFields(a, d) ==
    /\ engine = NoEngine
    /\ storage = NoFile
    /\ app = NoApp
    /\ observed = NothingObserved
    /\ call = NoCall
    /\ threads = NoThreads
    /\ algo_name = a
    /\ solver = IF caller = "AISolver" THEN AISolver_init ELSE create_ai_solver(a, d)
    /\ cache = EmptyMap
    /\ heuristic_cache = EmptyMap
    /\ nodes_evaluated = 0
    /\ pc = "idle"
    /\ k = 1
    /\ best_move = NoMove
    /\ best_value = NegInf
    /\ alpha = NegInf
    /\ expired = FALSE
    /\ evaluated = <<>>
    /\ result = NoMove
    /\ tree = NoTree
    /\ sims = 0
    /\ calls = 0
    /\ hits = {}
    /\ late = {}

\* a solver as its constructor leaves it
SolverAtRest(a, d) ==
    /\ SolverFields(a, d)
    /\ evaluation_cache = EmptyMap
    /\ evaluated_boards = 0

\* ------------------------------------------------- transition runs
MoveBoards == BoardsOver(3, TileValues) \cup {ScenarioMerge, Scenario2424, Checker4}

\* the score the transition starts from: 0 in the scenario
InitialScore(b) == IF b = ScenarioMerge THEN 0 ELSE 4

InitMove ==
    /\ \E b \in MoveBoards : game_state = GameState(b, InitialScore(b), 0)
    /\ input = game_state
    /\ mv_dir = NoMove
    /\ mv = NoResult
    /\ caller = "Advanced2048AI"
    /\ SolverAtRest("expectimax", "expert")
    /\ is_game_over = FALSE

Applied(r) ==
    /\ mv' = [moved |-> r.moved, new_state |-> r.new_state]
    /\ game_state' = r.arg

\* one call _simulate_move(game_state, d)
ApplyMove(d) ==
    /\ mv_dir = NoMove
    /\ Applied(_simulate_move(game_state, d))
    /\ mv_dir' = d
    /\ UNCHANGED <<input, searchVars, appVars, cacheVars, callVars>>

NextMove == \E d \in Directions : ApplyMove(d)

SpecMove == InitMove /\ [][NextMove]_vars

\* ------------------------------------------------- search runs
\* names a caller may pass to create_ai_solver
AlgorithmNames == {"expectimax", "alpha_beta", "monte_carlo", "minimax", "neural", "astar"}
DifficultyNames == {"easy", "normal", "hard", "expert", "medium"}

\* boards given to expectimax, alpha-beta and AISolver
SearchBoards == BoardsOver(2, TileValues)
\* those without an empty cell
FullBoards == BoardsOver(2, TileValues \ {0})

\* boards given to MCTS: few tiles can still merge, so that the random
\* rollouts from them are few
MctsBoards == { << <<16, 32>>, <<64, 0>> >>,
                << <<16, 32>>, <<64, 16>> >>,
                << <<0, 16>>, <<32, 64>> >>,
                Checker4 }

\* a board from which one board is reached by one move (a 4 is placed) and
\* by two moves (two 2s are placed)
Transposing == << <<2, 0>>, <<0, 2>> >>

\* the boards a run starts from.  The cost of a search grows with the depth
\* and the empty cells: the deeper searches start from the full boards.
InputBoards(c, a, d, sv) ==
    IF c = "AISolver" THEN SearchBoards \cup {Scenario2424, Checker4}
    ELSE IF sv.algorithm = "monte_carlo" THEN MctsBoards
    ELSE IF a = "astar" \/ d = "medium" THEN FullBoards
    ELSE IF sv.max_depth <= 4 THEN SearchBoards \cup {Checker4}
    ELSE FullBoards \cup {Checker4, Transposing}

\* what a step may find of the time budget: expired at once, after up to
\* MaxTicks further checks, or not within the step (-1)
TickChoices == (0..MaxTicks) \cup {-1}

Ctx(t) == [cache |-> cache, heuristic_cache |-> heuristic_cache,
           nodes_evaluated |-> nodes_evaluated, ticks |-> IF expired THEN 0 ELSE t,
           hits |-> hits, late |-> late, entered |-> 0]

SetCtx(ctx) ==
    /\ cache' = ctx.cache
    /\ heuristic_cache' = ctx.heuristic_cache
    /\ nodes_evaluated' = ctx.nodes_evaluated
    /\ expired' = (ctx.ticks = 0)
    /\ hits' = ctx.hits
    /\ late' = ctx.late

Init ==
    /\ caller \in {"Advanced2048AI", "AISolver"}
    /\ \E a \in AlgorithmNames, d \in DifficultyNames :
          /\ caller = "AISolver" => (a = "expectimax" /\ d = "expert")
          /\ SolverAtRest(a, d)
          /\ \E b \in InputBoards(caller, a, d, solver) : game_state = GameState(b, 0, 0)
    /\ input = game_state
    /\ mv_dir = NoMove
    /\ mv = NoResult
    /\ is_game_over = _check_game_over(game_state.board)

\* Advanced2048AI.get_best_move up to the dispatch.  The enum members
\* MINIMAX and NEURAL_HEURISTIC dispatch to methods the class does not
\* define: the call raises AttributeError.
Dispatched ==
    /\ caller = "Advanced2048AI"
    /\ calls' = calls + 1
    /\ hits' = {}
    /\ late' = {}
    /\ nodes_evaluated' = 0
    /\ cache' = EmptyMap
    /\ expired' = FALSE
    /\ input' = game_state
    /\ pc' = CASE solver.algorithm = "expectimax" -> "expectimax"
               [] solver.algorithm = "alpha_beta" -> "alpha_beta"
               [] solver.algorithm = "monte_carlo" -> "mcts"
               [] solver.algorithm \in {"minimax", "neural"} -> "raised"
               [] OTHER -> "expectimax"
    /\ k' = 1
    /\ best_move' = NoMove
    /\ best_value' = NegInf
    /\ alpha' = NegInf
    /\ evaluated' = <<>>
    /\ sims' = 0
    /\ tree' = IF solver.algorithm = "monte_carlo"
               THEN (<<>> :> MCTSNode(game_state)) ELSE NoTree
    /\ UNCHANGED <<game_state, mv_dir, mv, caller, algo_name, solver,
                   heuristic_cache, result, is_game_over, appVars, cacheVars, callVars>>

\* the first call on a new solver
GetBestMove == pc = "idle" /\ Dispatched

\* a further call on the same solver after the call before has returned
GetBestMoveAgain == pc = "done" /\ calls < MaxCalls /\ Dispatched

\* a root loop that makes the time check for every direction and breaks
RootSkippedTimed(sm) ==
    /\ game_state' = sm.arg
    /\ pc' = "return"
    /\ UNCHANGED <<evaluated, best_value, best_move, alpha, cache,
                   heuristic_cache, nodes_evaluated, expired, hits, late>>

\* the root direction k is not legal: the loop goes on
RootSkipped(sm) ==
    /\ game_state' = sm.arg
    /\ pc' = IF k = 4 THEN "return" ELSE pc
    /\ UNCHANGED <<evaluated, best_value, best_move, alpha, cache,
                   heuristic_cache, nodes_evaluated, expired, hits, late>>

\* the root direction k has been given the value r.value; then the check
\* `if time.time() - self.start_time > self.time_limit: break`
RootEvaluated(sm, r) ==
    /\ game_state' = After(sm.arg, r.arg)
    /\ evaluated' = Append(evaluated, [direction |-> Direction[k], value |-> r.value])
    /\ best_value' = IF Improves(r.value, best_value) THEN r.value ELSE best_value
    /\ best_move' = IF Improves(r.value, best_value) THEN Direction[k] ELSE best_move
    /\ SetCtx(Tick(r.ctx))
    /\ pc' = IF TimeUp(r.ctx) \/ k = 4 THEN "return" ELSE pc

ExpectimaxRoot(sm, t) ==
    IF Legal(sm)
    THEN /\ RootEvaluated(sm, _expectimax_chance(sm.new_state, solver.max_depth - 1, Ctx(t)))
         /\ UNCHANGED alpha
    ELSE RootSkipped(sm)

\* one iteration of `for direction in Direction` in _expectimax_decision
ExpectimaxStep ==
    /\ pc = "expectimax"
    /\ k <= 4
    /\ \E t \in TickChoices : ExpectimaxRoot(_simulate_move(game_state, Direction[k]), t)
    /\ k' = k + 1
    /\ UNCHANGED <<input, mv_dir, mv, caller, algo_name, solver, result,
                   tree, sims, is_game_over, calls, appVars, cacheVars, callVars>>

\* `alpha = max(alpha, value)` inside `if value > best_value`
AlphaRaised(value) ==
    alpha' = IF Improves(value, best_value) THEN Max2(alpha, value) ELSE alpha

AlphaBetaEvaluated(sm, r) == RootEvaluated(sm, r) /\ AlphaRaised(r.value)

AlphaBetaRoot(sm, t) ==
    IF Legal(sm)
    THEN AlphaBetaEvaluated(sm, _alpha_beta_chance(sm.new_state, solver.max_depth - 1,
                                                  alpha, PosInf, Ctx(t)))
    ELSE RootSkipped(sm)

\* one iteration of `for direction in Direction` in _alpha_beta_decision
AlphaBetaStep ==
    /\ pc = "alpha_beta"
    /\ k <= 4
    /\ \E t \in TickChoices : AlphaBetaRoot(_simulate_move(game_state, Direction[k]), t)
    /\ k' = k + 1
    /\ UNCHANGED <<input, mv_dir, mv, caller, algo_name, solver, result,
                   tree, sims, is_game_over, calls, appVars, cacheVars, callVars>>

\* `return best_move` of the two decision functions
Return ==
    /\ pc = "return"
    /\ result' = best_move
    /\ pc' = "done"
    /\ UNCHANGED <<game_state, input, mv_dir, mv, caller, algo_name, solver, cache,
                   heuristic_cache, nodes_evaluated, k, best_move, best_value, alpha,
                   expired, evaluated, tree, sims, is_game_over, calls, hits, late, appVars, cacheVars, callVars>>

\* reward = self._mcts_simulate(node.state); self._mcts_backpropagate(node, reward)
\* with t1 the tree after the simulation
MctsBackpropagated(node, t1, sim) ==
    /\ tree' = _mcts_backpropagate(t1, node, sim.value)
    /\ game_state' = t1[<<>>].state
    /\ heuristic_cache' = sim.ctx.heuristic_cache

MctsSimulated(sel) ==
    \E sim \in _mcts_simulate(sel.tree[sel.node].state, Ctx(-1)) :
        MctsBackpropagated(sel.node, [sel.tree EXCEPT ![sel.node].state = sim.arg], sim)

\* one iteration of the simulation loop of _mcts_decision that does not break
MctsIterate ==
    /\ pc = "mcts"
    /\ sims < solver.mcts_simulations
    /\ sims < MaxSims
    /\ ~expired
    /\ MctsSimulated(_mcts_select(tree))
    /\ sims' = sims + 1
    /\ UNCHANGED <<input, mv_dir, mv, caller, algo_name, solver, cache, nodes_evaluated,
                   pc, k, best_move, best_value, alpha, expired, evaluated, result,
                   is_game_over, calls, hits, late, appVars, cacheVars, callVars>>

\* the time budget runs out while the MCTS loop is running
MctsTimeout ==
    /\ pc = "mcts"
    /\ ~expired
    /\ expired' = TRUE
    /\ UNCHANGED <<game_state, input, mv_dir, mv, caller, algo_name, solver, cache,
                   heuristic_cache, nodes_evaluated, pc, k, best_move, best_value,
                   alpha, evaluated, result, tree, sims, is_game_over, calls, hits, late, appVars, cacheVars, callVars>>

\* the loop of _mcts_decision ends (break on the time check, or the
\* simulations are used up) and the most visited root child is returned
MctsChoose ==
    /\ pc = "mcts"
    /\ expired \/ sims >= solver.mcts_simulations
    /\ best_move' = MctsBest(tree, 1, NoMove, 0)
    /\ result' = best_move'
    /\ pc' = "done"
    /\ UNCHANGED <<game_state, input, mv_dir, mv, caller, algo_name, solver, cache,
                   heuristic_cache, nodes_evaluated, k, best_value, alpha, expired,
                   evaluated, tree, sims, is_game_over, calls, hits, late, appVars, cacheVars, callVars>>

\* AISolver.set_difficulty(difficulty) on the solver of the live engine
SetDifficulty ==
    /\ pc = "idle"
    /\ caller = "AISolver"
    /\ \E difficulty \in GameDifficulty : solver' = set_difficulty(solver, difficulty)
    /\ evaluation_cache' = EmptyMap
    /\ UNCHANGED <<game_state, input, mv_dir, mv, caller, algo_name, cache,
                   heuristic_cache, nodes_evaluated, pc, k, best_move, best_value,
                   alpha, expired, evaluated, result, tree, sims, is_game_over, calls,
                   hits, late, appVars, evaluated_boards, callVars>>

\* AISolver.get_best_move on the live engine (is_thinking is False at rest)
AISolverGetBestMove ==
    /\ pc = "idle"
    /\ caller = "AISolver"
    /\ result' \in AISolver_get_best_move(solver.is_thinking, is_game_over,
                                          game_state.board)
    /\ pc' = "done"
    /\ UNCHANGED <<game_state, input, mv_dir, mv, caller, algo_name, solver, cache,
                   heuristic_cache, nodes_evaluated, k, best_move, best_value, alpha,
                   expired, evaluated, tree, sims, is_game_over, calls, hits, late, appVars, cacheVars, callVars>>

Next ==
    \/ GetBestMove
    \/ ExpectimaxStep
    \/ AlphaBetaStep
    \/ Return
    \/ MctsIterate
    \/ MctsTimeout
    \/ MctsChoose
    \/ SetDifficulty
    \/ AISolverGetBestMove

Spec == Init /\ [][Next]_vars

\* ------------------------------------------------- application runs
\* the sizes of the boards the application is started with
AppSizes == {2}

\* the application a and a solver at rest beside its GameEngine
GameAtRest(a) ==
    /\ storage = NoFile
    /\ app = a
    /\ observed = NothingObserved
    /\ call = NoCall
    /\ threads = NoThreads
    /\ evaluation_cache = EmptyMap
    /\ evaluated_boards = 0
    /\ caller = "GameEngine"
    /\ algo_name = "expectimax"
    /\ solver = set_difficulty(AISolver_init, "medium")
    /\ game_state = GameState(engine.board, 0, 0)
    /\ input = game_state
    /\ mv_dir = NoMove
    /\ mv = NoResult
    /\ cache = EmptyMap /\ heuristic_cache = EmptyMap /\ nodes_evaluated = 0
    /\ pc = "idle" /\ k = 1 /\ best_move = NoMove /\ best_value = NegInf
    /\ alpha = NegInf /\ expired = FALSE /\ evaluated = <<>> /\ result = NoMove
    /\ tree = NoTree /\ sims = 0 /\ calls = 0 /\ hits = {} /\ late = {}
    /\ is_game_over = FALSE

\* a new GameEngine, owned by the application a
InitGame(a) ==
    /\ \E size \in AppSizes : engine \in GameEngine(size)
    /\ GameAtRest(a)

AppState == [engine |-> engine, storage |-> storage, app |-> app]

\* the sequences of calls whose outcome the caller compares with what it
\* read before them
ObservedCalls == { <<"move", "undo">>,
                   <<"_save_game_state", "new_game">>,
                   <<"_save_game_state", "new_game", "_load_saved_game">> }

\* the application is left in s after the call `name`; the caller keeps the
\* statistics it read before a save and the game as it was before a move as
\* long as the calls that follow are those of ObservedCalls
AppLeft(s, name) ==
    /\ engine' = s.engine
    /\ storage' = s.storage
    /\ app' = s.app
    /\ observed' =
          IF name = "move"
          THEN [NothingObserved EXCEPT
                   !.calls = <<name>>,
                   !.before_move = [board |-> engine.board, score |-> engine.score,
                                    moves |-> engine.moves]]
          ELSE IF name = "_save_game_state"
          THEN [NothingObserved EXCEPT
                   !.calls = <<name>>,
                   !.stats_before = [score |-> engine.score, moves |-> engine.moves]]
          ELSE IF Append(observed.calls, name) \in ObservedCalls
          THEN [observed EXCEPT !.calls = Append(@, name)]
          ELSE IF name \in {"move refused", "undo refused", "play_auto_move"}
          THEN [NothingObserved EXCEPT !.calls = <<name>>]
          ELSE NothingObserved

\* a call of the application made while no search runs
AppCalled(s, name) ==
    /\ AppLeft(s, name)
    /\ UNCHANGED <<game_state, input, mv_dir, mv, searchVars, cacheVars, callVars>>

\* move(direction)
Move ==
    /\ engine # NoEngine
    /\ engine.moves < MaxMoves
    /\ \E direction \in Directions : \E r \in move(AppState, direction) :
          AppCalled(r.s, IF r.ret THEN "move" ELSE "move refused")

\* undo()
Undo ==
    /\ engine # NoEngine
    /\ AppCalled(undo(AppState).s, IF undo(AppState).ret THEN "undo" ELSE "undo refused")

\* new_game().  The call leaves the same games whatever the game before
\* it: it is followed from the games that are over and after a save.
NewGame ==
    /\ engine # NoEngine
    /\ engine.is_game_over \/ observed.calls = <<"_save_game_state">>
    /\ \E s \in new_game(AppState) : AppCalled(s, "new_game")

\* app._save_game_state(), the statistics read before it
SaveGameState ==
    /\ engine # NoEngine
    /\ AppCalled(_save_game_state(AppState), "_save_game_state")

\* app._load_saved_game()
LoadSavedGame ==
    /\ engine # NoEngine
    /\ \E s \in _load_saved_game(AppState) : AppCalled(s, "_load_saved_game")

\* a GameEngine used without the application (no callback is set, nothing is
\* saved): games played with move, undo and new_game
InitEngine == InitGame(NoApp)

NextEngine ==
    \/ Move
    \/ Undo
    \/ NewGame

SpecEngine == InitEngine /\ [][NextEngine]_vars

\* Fancy2048App.__init__ in a directory without game_state.json and
\* settings.json: _load_saved_game starts a new game, nothing is saved
\* before is_initialized is set.  Games played, saved and loaded.
InitApp == InitGame([is_initialized |-> TRUE, auto_play_active |-> FALSE,
                     callbacks |-> TRUE])

NextApp ==
    \/ Move
    \/ NewGame
    \/ SaveGameState
    \/ LoadSavedGame

SpecApp == InitApp /\ [][NextApp]_vars

\* the searches and the games of the engine side by side
InitBoards == Init \/ InitEngine
NextBoards == Next \/ NextEngine
SpecBoards == InitBoards /\ [][NextBoards]_vars

\* the two searches over the moves
ScenarioAlgorithms == {"expectimax", "alpha_beta"}

\* ------------------------------------------------- repeated calls
\* several calls of get_best_move on one solver, for the same board
InitAgain ==
    /\ caller = "Advanced2048AI"
    /\ \E a \in ScenarioAlgorithms :
          /\ SolverAtRest(a, "expert")
          /\ \E b \in InputBoards(caller, a, "expert", solver) :
                game_state = GameState(b, 0, 0)
    /\ input = game_state
    /\ mv_dir = NoMove
    /\ mv = NoResult
    /\ is_game_over = _check_game_over(game_state.board)

NextAgain ==
    \/ GetBestMove
    \/ GetBestMoveAgain
    \/ ExpectimaxStep
    \/ AlphaBetaStep
    \/ Return

SpecAgain == InitAgain /\ [][NextAgain]_vars

\* ------------------------------------------------- scenario runs
\* the searches over the moves and the solver of the live engine, from the
\* board whose four rows are [2,4,2,4]
ScenarioDifficulties == {"easy", "normal", "hard", "expert"}

InitScenario ==
    /\ caller \in {"Advanced2048AI", "AISolver"}
    /\ \E a \in ScenarioAlgorithms, d \in ScenarioDifficulties :
          /\ caller = "AISolver" => (a = "expectimax" /\ d = "expert")
          /\ SolverAtRest(a, d)
    /\ game_state = GameState(Scenario2424, 0, 0)
    /\ input = game_state
    /\ mv_dir = NoMove
    /\ mv = NoResult
    /\ is_game_over = _check_game_over(game_state.board)

NextScenario ==
    \/ GetBestMove
    \/ ExpectimaxStep
    \/ AlphaBetaStep
    \/ Return
    \/ AISolverGetBestMove

SpecScenario == InitScenario /\ [][NextScenario]_vars

\* ------------------------------------------------------------ properties
\* The rules of the game, stated without the loops of the code.
\* The tiles of a line, listed from the edge they move toward, after a move:
\* equal neighbours are paired from that edge, a pair becomes one doubled
\* tile and adds its value to the gain.
RECURSIVE Paired(_)
Paired(tiles) ==
    IF Len(tiles) <= 1 THEN [line |-> tiles, gain |-> 0]
    ELSE IF tiles[1] = tiles[2]
         THEN LET rest == Paired(SubSeq(tiles, 3, Len(tiles)))
              IN [line |-> <<2 * tiles[1]>> \o rest.line, gain |-> 2 * tiles[1] + rest.gain]
         ELSE LET rest == Paired(Tail(tiles))
              IN [line |-> <<tiles[1]>> \o rest.line, gain |-> rest.gain]

\* line n of the board read from the edge the tiles move toward
FromEdge(board, d, n) ==
    CASE d = "left" -> board[n]
      [] d = "right" -> [j \in 1..Len(board) |-> board[n][Len(board) + 1 - j]]
      [] d = "up" -> [i \in 1..Len(board) |-> board[i][n]]
      [] d = "down" -> [i \in 1..Len(board) |-> board[Len(board) + 1 - i][n]]

PairedLine(board, d, n) == Paired(SelectSeq(FromEdge(board, d, n), LAMBDA x : x # 0))

\* the cell at distance m from the edge in line n after the move
SlidCell(board, d, n, m) ==
    IF m <= Len(PairedLine(board, d, n).line) THEN PairedLine(board, d, n).line[m] ELSE 0

\* the board after a move in direction d, and the score the move gains
Slid(board, d) ==
    [i \in 1..Len(board) |-> [j \in 1..Len(board) |->
        CASE d = "left" -> SlidCell(board, d, i, j)
          [] d = "right" -> SlidCell(board, d, i, Len(board) + 1 - j)
          [] d = "up" -> SlidCell(board, d, j, i)
          [] d = "down" -> SlidCell(board, d, j, Len(board) + 1 - i)]]
Gain(board, d) == SumTo([n \in 1..Len(board) |-> PairedLine(board, d, n).gain], Len(board))

\* the directions that change the board, in enum order
LegalDirections(board) == SelectSeq(Direction, LAMBDA d : Slid(board, d) # board)

\* board and gain after the moves of a path
RECURSIVE SlidAlong(_, _), GainAlong(_, _)
SlidAlong(board, path) ==
    IF path = <<>> THEN board ELSE SlidAlong(Slid(board, path[1]), Tail(path))
GainAlong(board, path) ==
    IF path = <<>> THEN 0
    ELSE Gain(board, path[1]) + GainAlong(Slid(board, path[1]), Tail(path))

\* no empty cell and no two equal neighbours in a row or a column
Terminal(board) ==
    /\ \A i, j \in 1..Len(board) : board[i][j] # 0
    /\ \A i \in 1..Len(board), j \in 1..(Len(board) - 1) :
          board[i][j] # board[i][j + 1] /\ board[j][i] # board[j + 1][i]

\* the direction of the first of the highest values in a list of evaluated moves
FirstHighest(ev) ==
    ev[CHOOSE i \in 1..Len(ev) :
          /\ \A j \in 1..Len(ev) : ev[j].value <= ev[i].value
          /\ \A j \in 1..(i - 1) : ev[j].value < ev[i].value].direction

\* a solver as get_best_move finds it on its first call, the budget not expiring
FreshCtx == [cache |-> EmptyMap, heuristic_cache |-> EmptyMap,
             nodes_evaluated |-> 0, ticks |-> -1, hits |-> {}, late |-> {},
             entered |-> 0]

Returned == pc = "done"
ByAdvanced == caller = "Advanced2048AI"

\* C1: a direction returned by Advanced2048AI.get_best_move (expectimax,
\* alpha_beta, monte_carlo) or by AISolver.get_best_move changes at least one
\* cell of the board the call was given: _simulate_move (for AISolver the
\* engine's move) does not report a no-op for it.
C1_ReturnedMoveChangesBoard ==
    (Returned /\ result \in Directions) =>
        /\ Slid(input.board, result) # input.board
        /\ IF ByAdvanced THEN _simulate_move(input, result).moved
           ELSE EngineSlide(input.board, 0, result).moved

C1_Witness ==
    /\ Returned /\ ByAdvanced /\ solver.algorithm = "monte_carlo"
    /\ result \in Directions
    /\ Len(LegalDirections(input.board)) < 4

\* C2: on a board with no empty cell and no two equal neighbours
\* get_best_move returns None, without raising, for every algorithm of the
\* AIAlgorithm enum.
C2_TerminalBoardReturnsNone ==
    (ByAdvanced /\ algo_name \in AIAlgorithm /\ Terminal(input.board)
        /\ pc \in {"done", "raised"})
    => (Returned /\ result = NoMove)

\* C3: on a board that some direction changes, get_best_move returns a
\* direction for each of the names expectimax, alpha_beta, monte_carlo and
\* minimax, whenever the time budget expires.
C3_NoneOnlyWithoutMoves ==
    (ByAdvanced /\ algo_name \in {"expectimax", "alpha_beta", "monte_carlo", "minimax"}
        /\ LegalDirections(input.board) # <<>> /\ pc \in {"done", "raised"})
    => (Returned /\ result \in Directions)

\* C4 as stated: on the board whose four rows are [2,4,2,4] the terminal
\* test reports true and get_best_move returns no move.
C4_ScenarioIsTerminal ==
    input.board = Scenario2424 =>
        /\ _check_game_over(input.board)
        /\ ~ _has_possible_moves(input).ret
        /\ Returned => result = NoMove

\* C4, amended: on the board whose four rows are [2,4,2,4] the terminal test
\* reports false (_check_game_over returns False and _has_possible_moves
\* returns True: the columns hold equal neighbours), left and right change
\* nothing, and get_best_move returns up or down for expectimax and
\* alpha_beta at every difficulty and for AISolver.
C4_ScenarioHasVerticalMoves ==
    input.board = Scenario2424 =>
        /\ ~ _check_game_over(input.board)
        /\ is_game_over = FALSE
        /\ _has_possible_moves(input).ret
        /\ LegalDirections(input.board) = <<"up", "down">>
        /\ Returned => result \in {"up", "down"}

C4_Witness ==
    /\ Returned /\ ByAdvanced /\ input.board = Scenario2424
    /\ solver.algorithm = "alpha_beta" /\ solver.max_depth = 6 /\ ~expired
    /\ result \in {"up", "down"}

\* C5: for every board and direction the transition leaves the board the
\* rules give (each line compacted toward the move direction, equal
\* neighbours merged pairwise from the edge the tiles move toward, no tile
\* merged twice, each merge the doubled value) and raises the score by the sum
\* of the doubled values; LEFT on [[2,2,0,0],[0,0,0,0],[0,0,0,0],[0,0,0,0]]
\* with score 0 yields [[4,0,0,0],[0,0,0,0],[0,0,0,0],[0,0,0,0]], score 4,
\* changed.
C5_SlideAndMerge ==
    mv_dir # NoMove =>
        /\ mv.new_state.board = Slid(input.board, mv_dir)
        /\ mv.new_state.score = input.score + Gain(input.board, mv_dir)
        /\ (input.board = ScenarioMerge /\ input.score = 0 /\ mv_dir = "left") =>
              /\ mv.moved
              /\ mv.new_state.board = << <<4, 0, 0, 0>>, <<0, 0, 0, 0>>,
                                         <<0, 0, 0, 0>>, <<0, 0, 0, 0>> >>
              /\ mv.new_state.score = 4

C5_Witness ==
    /\ mv_dir = "right" /\ mv.moved
    /\ input.board[1] = <<2, 2, 2>>
    /\ mv.new_state.board[1] = <<0, 2, 4>>
    /\ mv.new_state.score >= input.score + 4

\* C6: _simulate_move returns None exactly when the board after sliding and
\* merging equals the input board cell for cell, and the board of a state it
\* returns differs from the input board.
C6_NoneIffUnchanged ==
    mv_dir # NoMove =>
        /\ ~mv.moved <=> Slid(input.board, mv_dir) = input.board
        /\ ~mv.moved <=> mv.new_state.board = input.board

C6_Witness ==
    /\ mv_dir = "up" /\ ~mv.moved
    /\ \E j \in 1..input.size : input.board[1][j] # 0

\* C7: the search does not change the GameState it is given (board and
\* score stay what they were when get_best_move was called, throughout the
\* search and at its return), and the state stored in an MCTS node stays the
\* one its path of moves gives, whatever else is explored.
C7_InputNotMutated ==
    /\ game_state.board = input.board
    /\ game_state.score = input.score
    /\ \A p \in DOMAIN tree :
          /\ tree[p].state.board = SlidAlong(input.board, p)
          /\ tree[p].state.score = input.score + GainAlong(input.board, p)

C7_Witness ==
    /\ Returned /\ ByAdvanced /\ solver.algorithm = "monte_carlo"
    /\ sims >= 3
    /\ \E p \in DOMAIN tree : Len(p) = 1 /\ tree[p].visits > 0
    /\ game_state = input

\* C8: when the time budget does not expire, _expectimax_decision gives a
\* value to each direction that changes the board, in the order UP, DOWN,
\* LEFT, RIGHT, and returns the first direction of the highest value; the
\* direction is the one the decision yields for that board on a fresh solver.
C8_ExpectimaxFirstHighest ==
    (Returned /\ ByAdvanced /\ solver.algorithm = "expectimax" /\ ~expired) =>
        /\ [i \in 1..Len(evaluated) |-> evaluated[i].direction]
              = LegalDirections(input.board)
        /\ result = IF evaluated = <<>> THEN NoMove ELSE FirstHighest(evaluated)
        /\ result = _expectimax_decision(input, solver.max_depth, FreshCtx).best_move

C8_Witness ==
    /\ Returned /\ ByAdvanced /\ solver.algorithm = "expectimax" /\ ~expired
    /\ \E i, j \in 1..Len(evaluated) :
          /\ i < j
          /\ evaluated[i].value = evaluated[j].value
          /\ result = evaluated[i].direction

\* C9: when the time budget expires during a search, get_best_move returns
\* the best of the root moves evaluated so far (expectimax, alpha_beta: the
\* first of the highest values; monte_carlo: the most visited root child) and
\* not None once one has been evaluated; the root loop of
\* _expectimax_decision and _alpha_beta_decision breaks on the time check
\* only after the direction it just tried was legal and evaluated.
C9_TimeoutKeepsBest ==
    ByAdvanced =>
        /\ (pc \in {"return", "done"} /\ solver.algorithm # "monte_carlo" /\ k <= 4) =>
              /\ expired
              /\ evaluated # <<>>
              /\ evaluated[Len(evaluated)].direction = Direction[k - 1]
        /\ (Returned /\ expired /\ solver.algorithm # "monte_carlo" /\ evaluated # <<>>) =>
              /\ result \in Directions
              /\ result = FirstHighest(evaluated)
        /\ (Returned /\ expired /\ solver.algorithm = "monte_carlo"
               /\ \E p \in DOMAIN tree : Len(p) = 1 /\ tree[p].visits > 0) =>
              /\ result \in Directions
              /\ \A p \in DOMAIN tree :
                    Len(p) = 1 => tree[p].visits <= tree[<<result>>].visits

C9_Witness ==
    /\ Returned /\ ByAdvanced /\ solver.algorithm = "expectimax" /\ expired
    /\ Len(evaluated) = 1
    /\ Len(LegalDirections(input.board)) >= 2
    /\ result = evaluated[1].direction

\* C10: when the time budget does not expire, _alpha_beta_decision returns
\* the direction _expectimax_decision returns for the same board and depth,
\* and gives that root move the same value.
C10_AlphaBetaAgreesWithExpectimax ==
    (Returned /\ ByAdvanced /\ solver.algorithm = "alpha_beta" /\ ~expired) =>
        /\ result = _expectimax_decision(input, solver.max_depth, FreshCtx).best_move
        /\ best_value = _expectimax_decision(input, solver.max_depth, FreshCtx).best_value

C10_Witness ==
    /\ Returned /\ ByAdvanced /\ solver.algorithm = "alpha_beta" /\ ~expired
    /\ Len(evaluated) >= 2
    /\ result \in Directions
    /\ cache # EmptyMap

\* the root children of the MCTS tree in the order expand() inserted them,
\* and the visits of the n-th
RootChildren == tree[<<>>].children
ChildVisits(n) == tree[<<RootChildren[n]>>].visits
ByMcts == ByAdvanced /\ solver.algorithm = "monte_carlo"

\* C11: after MCTS has run on a non-terminal board, the root children are
\* the directions that change the board in the order UP, DOWN, LEFT, RIGHT,
\* and the direction returned is the explored root child with the highest
\* visit count (whatever the mean rewards), the first of them in that order
\* when several share the highest count.
C11_MctsReturnsMostVisited ==
    (Returned /\ ByMcts /\ ~Terminal(input.board)) =>
        /\ RootChildren \in {<<>>, LegalDirections(input.board)}
        /\ (result # NoMove \/ \E n \in 1..Len(RootChildren) : ChildVisits(n) > 0) =>
              \E n \in 1..Len(RootChildren) :
                 /\ result = RootChildren[n]
                 /\ \A m \in 1..Len(RootChildren) : ChildVisits(m) <= ChildVisits(n)
                 /\ \A m \in 1..(n - 1) : ChildVisits(m) < ChildVisits(n)

\* two root children share the highest visit count, the second has the
\* higher mean reward, and the first is returned
C11_Witness ==
    /\ Returned /\ ByMcts
    /\ Len(RootChildren) = 2
    /\ ChildVisits(1) = ChildVisits(2) /\ ChildVisits(1) >= 1
    /\ tree[<<RootChildren[2]>>].total_reward > tree[<<RootChildren[1]>>].total_reward
    /\ result = RootChildren[1]

\* the search-depth budget of each difficulty
DepthBudget == [easy |-> 3, medium |-> 4, hard |-> 5, expert |-> 6]

\* C12: each difficulty EASY, MEDIUM, HARD, EXPERT resolves to the depth
\* budget 3, 4, 5, 6, and to 1000 MCTS simulations for EXPERT and 500 for the
\* others, in a solver built by create_ai_solver with the name of the
\* difficulty and in an AISolver whose difficulty was set by set_difficulty
\* (which holds a depth only).
C12_DifficultyBudgets ==
    solver.difficulty \in GameDifficulty =>
        /\ solver.max_depth = DepthBudget[solver.difficulty]
        /\ ByAdvanced =>
              solver.mcts_simulations = IF solver.difficulty = "expert" THEN 1000 ELSE 500

\* the difficulty names create_ai_solver knows (the algorithm names it knows
\* are the values of AIAlgorithm)
KnownDifficulties == {"easy", "normal", "hard", "expert"}

\* C13: with an algorithm name and a difficulty name that are both unknown,
\* create_ai_solver builds without raising the solver that runs Expectimax
\* with the expert depth budget 6, and get_best_move on it does not raise and
\* returns a direction or None: what the Expectimax decision at depth 6
\* returns for the board when the budget does not expire.
C13_UnknownNamesFallBack ==
    (ByAdvanced /\ algo_name \notin AIAlgorithm /\ solver.difficulty \notin KnownDifficulties) =>
        /\ solver.algorithm = create_ai_solver("expectimax", "expert").algorithm
        /\ solver.algorithm = "expectimax"
        /\ solver.max_depth = create_ai_solver("expectimax", "expert").max_depth
        /\ solver.max_depth = 6
        /\ pc \in {"idle", "expectimax", "return", "done"}
        /\ Returned =>
              /\ result \in Directions \cup {NoMove}
              /\ ~expired =>
                    result = _expectimax_decision(input, 6, FreshCtx).best_move

C13_Witness ==
    /\ Returned /\ ByAdvanced /\ ~expired
    /\ algo_name = "astar" /\ solver.difficulty = "medium"
    /\ result \in Directions
    /\ Len(evaluated) >= 2

\* C14: in Fancy2048App, after some moves, the calls _save_game_state(),
\* new_game(), _load_saved_game() leave the game that was saved: score and
\* move count after the load are those read just before the save.
C14_SaveNewLoadRestores ==
    (/\ observed.calls = <<"_save_game_state", "new_game", "_load_saved_game">>
     /\ observed.stats_before.moves > 0) =>
        /\ engine.score = observed.stats_before.score
        /\ engine.moves = observed.stats_before.moves

\* C15: a successful move followed by undo() leaves board, score and moves
\* of the GameEngine as they were immediately before that move, the tile
\* spawned after the previous move included.
C15_UndoRestoresBeforeMove ==
    observed.calls = <<"move", "undo">> =>
        /\ engine.board = observed.before_move.board
        /\ engine.score = observed.before_move.score
        /\ engine.moves = observed.before_move.moves

\* a power of two that is at least 2
RECURSIVE IsPowerOfTwo(_)
IsPowerOfTwo(v) == v = 2 \/ (v > 2 /\ v % 2 = 0 /\ IsPowerOfTwo(v \div 2))

WellFormed(board) ==
    \A i, j \in 1..Len(board) : board[i][j] = 0 \/ IsPowerOfTwo(board[i][j])

\* C16: every non-zero cell is a power of two that is at least 2, on the
\* board of the GameEngine and the boards of its history in every state
\* reached from a new game by move, undo and new_game, and on the boards a
\* search creates: the results of the transitions, the boards with a tile
\* placed (the MAX nodes kept in the transposition cache, the random tiles of
\* the rollouts), the states of the MCTS nodes and the boards evaluated.
C16_TilesArePowersOfTwo ==
    /\ engine # NoEngine =>
          /\ WellFormed(engine.board)
          /\ \A n \in 1..Len(engine.history) : WellFormed(engine.history[n].board)
    /\ engine = NoEngine =>
          /\ WellFormed(game_state.board)
          /\ \A d \in Directions : WellFormed(_simulate_move(input, d).new_state.board)
          /\ \A new_state \in _add_random_tile(input) : WellFormed(new_state.board)
          /\ \A p \in DOMAIN tree : WellFormed(tree[p].state.board)
          /\ \A state_key \in DOMAIN cache : WellFormed(state_key)
          /\ \A state_key \in DOMAIN heuristic_cache : WellFormed(state_key)

\* a game in which two tiles have merged and a tile has spawned beside them
C16_Witness ==
    /\ engine # NoEngine
    /\ observed.calls = <<"move">>
    /\ engine.moves = 2
    /\ engine.score >= 8
    /\ \E i, j \in 1..engine.size : engine.board[i][j] = 8
    /\ Len(engine.history) = 3

\* no direction changes the board, by the transitions of the engine
NoEngineMove(board) == \A d \in Directions : ~EngineSlide(board, 0, d).moved

CallStarted ==
    /\ ByAdvanced
    /\ pc \in {"expectimax", "alpha_beta", "mcts"}
    /\ k = 1 /\ sims = 0 /\ evaluated = <<>>

\* C18: at the start of every top-level get_best_move call nothing
\* computed during an earlier call is visible: the transposition cache of
\* MAX-layer values and the heuristic evaluation memo are both empty.
C18_CachesArePerCall ==
    CallStarted => (cache = EmptyMap /\ heuristic_cache = EmptyMap)

\* The value of a MAX node and of a chance node at a remaining depth, by the
\* rules of the search and without any cache or time budget: the heuristic
\* value at depth 0 and on a board without a move (MAX) or without an empty
\* cell (chance), the highest value of the legal moves, the sum of the
\* shares of the placements.
HeuristicOf(board) == _evaluate_state(GameState(board, 0, 0), FreshCtx).value
RECURSIVE MaxAt(_, _), ChanceAt(_, _)
ChanceAt(board, depth) ==
    LET empty_cells == get_empty_cells(GameState(board, 0, 0))
    IN IF depth = 0 \/ empty_cells = <<>> THEN HeuristicOf(board)
       ELSE SumTo([n \in 1..(2 * Len(empty_cells)) |->
                      Share(n,
                            MaxAt([board EXCEPT
                                      ![OutcomeCell(empty_cells, n)[1]]
                                       [OutcomeCell(empty_cells, n)[2]] = OutcomeTile(n)],
                                  depth - 1),
                            empty_cells)],
                  2 * Len(empty_cells))
MaxAt(board, depth) ==
    IF depth = 0 \/ LegalDirections(board) = <<>> THEN HeuristicOf(board)
    ELSE SeqMax([n \in 1..Len(LegalDirections(board)) |->
                    ChanceAt(Slid(board, LegalDirections(board)[n]), depth - 1)])

\* C19: a MAX-layer value served from the transposition cache is the value
\* of the same board at the same remaining depth: every cache hit of a call
\* returns what the MAX node computes, uncached and within the time budget,
\* at the depth of the visit that is served.
C19_CacheHitsMatchDepth ==
    \A h \in hits : h.value = MaxAt(h.state_key, h.depth)

\* a node that had children to expand: a chance node with an empty cell, a
\* max node with a legal move, above depth 0
Expandable(l) ==
    /\ l.depth > 0
    /\ IF l.kind = "chance" THEN \E i, j \in 1..Len(l.state_key) : l.state_key[i][j] = 0
       ELSE LegalDirections(l.state_key) # <<>>

BySearch == ByAdvanced /\ solver.algorithm \in {"expectimax", "alpha_beta"}

\* C20: once the time budget has expired, every chance node and every max
\* node entered afterwards, in expectimax and in alpha-beta, returns the
\* heuristic evaluation of its own board and enters no node below it, and
\* the root loop is left: the call has nothing left but to return.
C20_LateNodesOnlyEvaluate ==
    BySearch =>
        /\ \A l \in late : l.expanded = 0 /\ l.value = HeuristicOf(l.state_key)
        /\ expired => pc \in {"return", "done"}

C20_Witness ==
    /\ BySearch /\ Returned /\ expired
    /\ solver.algorithm = "alpha_beta"
    /\ \E l \in late : l.kind = "max" /\ Expandable(l)
    /\ \E l \in late : l.kind = "chance" /\ Expandable(l)

\* ------------------------------------------------- runs of one chance node
\* largest remaining depth a chance node is called with by itself
MaxNodeDepth == 3

\* boards whose two placements in the one empty cell evaluate alike
AlikeBoards == { << <<0, 16>>, <<2, 16>> >>, << <<0, 8>>, <<2, 8>> >>,
                 << <<0, 4>>, <<2, 8>> >>, << <<2, 16>>, <<0, 16>> >> }

ChanceBoards == SearchBoards \cup AlikeBoards

ChanceFunctions == {"_expectimax_chance", "_alpha_beta_chance"}

InitChance ==
    /\ \E b \in ChanceBoards : game_state = GameState(b, 0, 0)
    /\ input = game_state
    /\ mv_dir = NoMove
    /\ mv = NoResult
    /\ caller = "Advanced2048AI"
    /\ SolverAtRest("expectimax", "expert")
    /\ is_game_over = FALSE

\* the chance node `function` of remaining depth `depth` has returned r
ChanceReturned(function, depth, r) ==
    /\ call' = [function |-> function, depth |-> depth, value |-> r.value]
    /\ UNCHANGED threads
    /\ game_state' = r.arg

\* one call of _expectimax_chance(game_state, depth) on a solver at rest
ExpectimaxChanceCalled ==
    /\ call = NoCall
    /\ \E depth \in 0..MaxNodeDepth :
          ChanceReturned("_expectimax_chance", depth,
                         _expectimax_chance(game_state, depth, FreshCtx))
    /\ UNCHANGED <<input, mv_dir, mv, searchVars, appVars, cacheVars>>

\* one call of _alpha_beta_chance(game_state, depth, -inf, inf) on a solver at rest
AlphaBetaChanceCalled ==
    /\ call = NoCall
    /\ \E depth \in 0..MaxNodeDepth :
          ChanceReturned("_alpha_beta_chance", depth,
                         _alpha_beta_chance(game_state, depth, NegInf, PosInf, FreshCtx))
    /\ UNCHANGED <<input, mv_dir, mv, searchVars, appVars, cacheVars>>

NextChance == ExpectimaxChanceCalled \/ AlphaBetaChanceCalled

SpecChance == InitChance /\ [][NextChance]_vars

\* the MAX-layer call a chance node makes for an outcome
MaxLayer(function, state, depth, ctx) ==
    IF function = "_expectimax_chance" THEN _expectimax_max(state, depth, ctx)
    ELSE _alpha_beta_max(state, depth, NegInf, PosInf, ctx)

\* the values the MAX layer returns for the outcomes n, n + 1, ... of a
\* chance node, called one after the other on the same solver
RECURSIVE OutcomeValues(_, _, _, _, _, _)
OutcomeValuesNext(function, board, depth, empty_cells, n, r) ==
    <<r.value>> \o OutcomeValues(function, board, depth, empty_cells, n + 1, r.ctx)
OutcomeValues(function, board, depth, empty_cells, n, ctx) ==
    IF n > 2 * Len(empty_cells) THEN <<>>
    ELSE OutcomeValuesNext(function, board, depth, empty_cells, n,
            MaxLayer(function,
                     GameState([board EXCEPT ![OutcomeCell(empty_cells, n)[1]]
                                              [OutcomeCell(empty_cells, n)[2]] = OutcomeTile(n)],
                               0, 0),
                     depth - 1, ctx))

SeqMin(s) == CHOOSE x \in {s[i] : i \in DOMAIN s} : \A i \in DOMAIN s : x <= s[i]

\* the weights of the outcomes of a chance node with n empty cells, in
\* tenths of 1 / n
WeightSum(n) == SumTo([i \in 1..(2 * n) |-> OutcomeProb(i)], 2 * n)

\* the value of a chance node over the outcome values: each outcome has the
\* weight of its tile over the number of empty cells
Weighted(values, empty_cells) ==
    SumTo([i \in 1..Len(values) |-> Share(i, values[i], empty_cells)], Len(values))

ChanceExpands(board, depth) ==
    depth > 0 /\ get_empty_cells(GameState(board, 0, 0)) # <<>>

\* what the claim says of the chance node that returned `value` for the
\* outcome values `values`
ChanceValueOf(value, values, empty_cells) ==
    /\ Len(values) = 2 * Len(empty_cells)
    /\ value = Weighted(values, empty_cells)
    /\ WeightSum(Len(empty_cells)) = 10 * Len(empty_cells)
    /\ SeqMin(values) <= value
    /\ value <= SeqMax(values)

IsPrefix(p, q) == Len(p) <= Len(q) /\ SubSeq(q, 1, Len(p)) = p

\* the visits of the children of the node at path p
ChildrenVisits(t, p) ==
    SumTo([n \in 1..Len(t[p].children) |-> t[Append(p, t[p].children[n])].visits],
          Len(t[p].children))

\* an MCTS iteration has simulated `node` with the reward `reward`
Backpropagated(node, reward) ==
    /\ DOMAIN tree \subseteq DOMAIN tree'
    /\ \A p \in DOMAIN tree' :
          IF IsPrefix(p, node)
          THEN /\ p \in DOMAIN tree
               /\ tree'[p].visits = tree[p].visits + 1
               /\ tree'[p].total_reward = tree[p].total_reward + reward
          ELSE IF p \in DOMAIN tree
          THEN /\ tree'[p].visits = tree[p].visits
               /\ tree'[p].total_reward = tree[p].total_reward
          ELSE tree'[p].visits = 0 /\ tree'[p].total_reward = 0

MctsRunning == ByMcts /\ pc \in {"mcts", "done"}

\* C22: each MCTS iteration adds one visit and the rollout reward on the
\* simulated node and on every ancestor up to the root and changes the
\* statistics of no other node; root.visits is the number of completed
\* simulations and the visits of a node are at least those of its children.
C22_BackpropagationCounts ==
    /\ [][sims' = sims + 1 =>
             \E node \in DOMAIN tree' :
                 Backpropagated(node, tree'[<<>>].total_reward - tree[<<>>].total_reward)]_vars
    /\ [](MctsRunning =>
             /\ tree[<<>>].visits = sims
             /\ \A p \in DOMAIN tree : tree[p].visits >= ChildrenVisits(tree, p))

C22_Witness ==
    /\ MctsRunning
    /\ sims = MaxSims
    /\ \E p \in DOMAIN tree :
          /\ Len(p) = 1
          /\ tree[p].visits >= 2
          /\ tree[p].children # <<>>
          /\ tree[p].visits > ChildrenVisits(tree, p)

\* the paths of the siblings of the node at path p
Siblings(t, p) ==
    {Append(Parent(p), t[Parent(p)].children[n]) : n \in 1..Len(t[Parent(p)].children)} \ {p}

\* C23: in every tree of an MCTS run an unvisited child is chosen before a
\* visited sibling: no child has a second visit while a sibling has none,
\* and every child has a parent with at least one visit, so that UCB1 takes
\* no logarithm of zero and divides by no zero.
C23_UnvisitedChildFirst ==
    MctsRunning =>
        \A p \in DOMAIN tree \ {<<>>} :
            /\ tree[Parent(p)].visits >= 1
            /\ tree[p].visits >= 2 => \A q \in Siblings(tree, p) : tree[q].visits >= 1

C23_Witness ==
    /\ MctsRunning
    /\ \E p \in DOMAIN tree \ {<<>>} :
          /\ tree[p].visits >= 2
          /\ Siblings(tree, p) # {}
          /\ \E q \in Siblings(tree, p) : tree[q].visits = 1

\* ------------------------------------------------- runs of the heuristic
HeuristicBoards == SearchBoards \cup {Checker4, Scenario2424}

InitHeuristic ==
    /\ \E b \in HeuristicBoards : game_state = GameState(b, 0, 0)
    /\ input = game_state
    /\ mv_dir = NoMove
    /\ mv = NoResult
    /\ caller = "Advanced2048AI"
    /\ SolverAtRest("expectimax", "expert")
    /\ is_game_over = FALSE

\* _evaluate_state(game_state) has returned r
EvaluateReturned(r) ==
    /\ call' = [function |-> "_evaluate_state", value |-> r.value]
    /\ UNCHANGED threads
    /\ game_state' = r.arg
    /\ heuristic_cache' = r.ctx.heuristic_cache

\* one call of _evaluate_state(game_state) on a solver at rest
EvaluateStateCalled ==
    /\ call = NoCall
    /\ EvaluateReturned(_evaluate_state(game_state, Ctx(-1)))
    /\ UNCHANGED <<input, mv_dir, mv, caller, algo_name, solver, cache, nodes_evaluated,
                   pc, k, best_move, best_value, alpha, expired, evaluated, result,
                   tree, sims, is_game_over, calls, hits, late, appVars, cacheVars>>

\* one call of _calculate_snake_pattern(game_state.board)
SnakePatternCalled ==
    /\ call = NoCall
    /\ call' = [function |-> "_calculate_snake_pattern",
                value |-> _calculate_snake_pattern(game_state.board)]
    /\ UNCHANGED threads
    /\ UNCHANGED <<game_state, input, mv_dir, mv, searchVars, appVars, cacheVars>>

NextHeuristic == EvaluateStateCalled \/ SnakePatternCalled

SpecHeuristic == InitHeuristic /\ [][NextHeuristic]_vars

\* the terminal penalty, in hundredths
TerminalPenalty == 100000000

\* C24: the heuristic subtracts the terminal penalty exactly when the board
\* has no empty cell and no direction changes it, and every terminal board
\* evaluates strictly lower than every board that is not terminal.
C24_PenaltyIffTerminal ==
    call.function = "_evaluate_state" =>
        /\ call.value =
              HeuristicSum(input, Len(get_empty_cells(input)))
              - (IF Terminal(input.board) THEN TerminalPenalty ELSE 0)
        /\ Terminal(input.board) =>
              \A b \in HeuristicBoards : ~Terminal(b) => call.value < HeuristicOf(b)
        /\ ~Terminal(input.board) =>
              \A b \in HeuristicBoards : Terminal(b) => HeuristicOf(b) < call.value

C24_Witness ==
    /\ call.function = "_evaluate_state"
    /\ Terminal(input.board)
    /\ Len(input.board) = 2
    /\ call.value < 0
    /\ \E b \in HeuristicBoards : ~Terminal(b) /\ get_empty_cells(GameState(b, 0, 0)) = <<>>

\* the cells of the board in serpentine order: the rows from the top, the
\* first, third, ... row from left to right, the others from right to left
Serpentine(board) ==
    [n \in 1..(Len(board) * Len(board)) |->
        IF ((n - 1) \div Len(board)) % 2 = 0
        THEN board[((n - 1) \div Len(board)) + 1][((n - 1) % Len(board)) + 1]
        ELSE board[((n - 1) \div Len(board)) + 1][Len(board) - ((n - 1) % Len(board))]]

\* what a pair of values adjacent on the path adds: log2 of the larger value
\* when the values do not increase, minus log2 of the larger otherwise (two
\* empty cells have no larger value and add nothing)
PairScore(val1, val2) ==
    IF val1 = 0 /\ val2 = 0 THEN 0
    ELSE IF val1 >= val2 THEN Log2(val1) ELSE - Log2(val2)

\* C25: the snake-pattern score walks the cells in serpentine order and
\* adds, for every adjacent pair of the path, log2 of the larger value when
\* the values are non-increasing along the path and subtracts it otherwise.
C25_SnakeScoresEveryPair ==
    call.function = "_calculate_snake_pattern" =>
        call.value =
            SumTo([n \in 1..(Len(Serpentine(input.board)) - 1) |->
                      PairScore(Serpentine(input.board)[n], Serpentine(input.board)[n + 1])],
                  Len(Serpentine(input.board)) - 1)

\* ------------------------------------------------- runs of the evaluation cache
\* cap on the calls made on the solver in one run
MaxEvaluations == 3

\* the tile of digit d: empty for 0, 2^d otherwise
DigitTile(d) == IF d = 0 THEN 0 ELSE Pow2(d)

\* the boards an AISolver evaluates, numbered from 0: the 2x2 boards over
\* the tiles up to 1024, the n-th with the base-11 digits of n as its cells
BoardNo(n) ==
    << <<DigitTile(n % 11), DigitTile((n \div 11) % 11)>>,
       <<DigitTile((n \div 121) % 11), DigitTile((n \div 1331) % 11)>> >>

\* the board of a key of a 2x2 board
BoardOfKey(key) == << <<key[1], key[2]>>, <<key[3], key[4]>> >>

\* the cache of a solver that has evaluated the boards 0 .. m - 1 since the
\* cache was empty, m <= max_cache_size
CacheAfter(m) ==
    [key \in {_get_board_key(BoardNo(n)) : n \in 0..(m - 1)} |-> BoardScore(BoardOfKey(key))]

\* how many boards the solver has evaluated when a run starts
EvaluatedBefore == {0, 1, 2, max_cache_size - 2, max_cache_size - 1, max_cache_size}

InitCache ==
    /\ caller = "AISolver"
    /\ SolverFields("expectimax", "expert")
    /\ evaluated_boards \in EvaluatedBefore
    /\ evaluation_cache = CacheAfter(evaluated_boards)
    /\ game_state = GameState(BoardNo(0), 0, 0)
    /\ input = game_state
    /\ mv_dir = NoMove
    /\ mv = NoResult
    /\ is_game_over = FALSE

\* _evaluate_board(board) has returned r
BoardEvaluated(board, r) ==
    /\ call' = [function |-> "_evaluate_board", value |-> r.value]
    /\ UNCHANGED threads
    /\ evaluation_cache' = r.evaluation_cache
    /\ input' = GameState(board, 0, 0)
    /\ calls' = calls + 1

\* one call of _evaluate_board on a board the solver has not seen yet
EvaluateBoardNew ==
    /\ calls < MaxEvaluations
    /\ BoardEvaluated(BoardNo(evaluated_boards),
                      _evaluate_board(BoardNo(evaluated_boards), evaluation_cache))
    /\ evaluated_boards' = evaluated_boards + 1
    /\ UNCHANGED <<game_state, mv_dir, mv, caller, algo_name, solver, cache,
                   heuristic_cache, nodes_evaluated, pc, k, best_move, best_value, alpha,
                   expired, evaluated, result, tree, sims, is_game_over, hits, late, appVars>>

\* one call of _evaluate_board on one of the first boards it has seen
EvaluateBoardAgain ==
    /\ calls < MaxEvaluations
    /\ \E n \in 0..1 :
          /\ n < evaluated_boards
          /\ BoardEvaluated(BoardNo(n), _evaluate_board(BoardNo(n), evaluation_cache))
    /\ UNCHANGED <<game_state, mv_dir, mv, caller, algo_name, solver, cache,
                   heuristic_cache, nodes_evaluated, pc, k, best_move, best_value, alpha,
                   expired, evaluated, result, tree, sims, is_game_over, hits, late, appVars,
                   evaluated_boards>>

\* AISolver.clear_cache()
ClearCache ==
    /\ calls < MaxEvaluations
    /\ evaluation_cache # EmptyMap
    /\ evaluation_cache' = EmptyMap
    /\ call' = [function |-> "clear_cache"]
    /\ UNCHANGED threads
    /\ calls' = calls + 1
    /\ UNCHANGED <<game_state, input, mv_dir, mv, caller, algo_name, solver, cache,
                   heuristic_cache, nodes_evaluated, pc, k, best_move, best_value, alpha,
                   expired, evaluated, result, tree, sims, is_game_over, hits, late, appVars,
                   evaluated_boards>>

NextCache == EvaluateBoardNew \/ EvaluateBoardAgain \/ ClearCache

SpecCache == InitCache /\ [][NextCache]_vars

\* C26: AISolver.evaluation_cache never holds more than max_cache_size
\* entries: it is cleared before the insertion that would exceed the cap;
\* and a board is given the same value whether the cache was cleared or not,
\* the value _evaluate_board computes for it.
C26_EvaluationCacheCapped ==
    /\ Cardinality(DOMAIN evaluation_cache) <= max_cache_size
    /\ call.function = "_evaluate_board" => call.value = BoardScore(input.board)
    /\ \A key \in DOMAIN evaluation_cache \cap {_get_board_key(BoardNo(n)) : n \in 0..1} :
          evaluation_cache[key] = BoardScore(BoardOfKey(key))

C26_Witness ==
    /\ evaluated_boards > max_cache_size
    /\ Cardinality(DOMAIN evaluation_cache) = 2
    /\ call.function = "_evaluate_board"
    /\ input.board = BoardNo(0)
    /\ call.value = BoardScore(BoardNo(0))

\* ------------------------------------------------- long games
\* cap on the calls made on the engine of a game already played for a while
MaxLateCalls == 2

\* the game s after one more move that does not end it, the direction and
\* the tile being one of those the move can take
PlayedOnce(s) ==
    (CHOOSE r \in UNION {move(s, direction) : direction \in Directions} :
        r.ret /\ ~r.s.engine.is_game_over).s

\* the game s after n such moves
RECURSIVE Played(_, _)
Played(s, n) == IF n = 0 THEN s ELSE Played(PlayedOnce(s), n - 1)

\* how many moves the games have been played for when a run starts
PlayedBefore == {0, 1, 8, 9, 10}

InitLate ==
    /\ \E size \in AppSizes : \E e \in GameEngine(size) : \E n \in PlayedBefore :
          engine = Played([engine |-> e, storage |-> NoFile, app |-> NoApp], n).engine
    /\ GameAtRest(NoApp)

\* one more call made on the engine, which is left in s
LateCalled(s, name) ==
    /\ calls < MaxLateCalls
    /\ calls' = calls + 1
    /\ AppLeft(s, name)
    /\ UNCHANGED <<game_state, input, mv_dir, mv, caller, algo_name, solver, cache,
                   heuristic_cache, nodes_evaluated, pc, k, best_move, best_value, alpha,
                   expired, evaluated, result, tree, sims, is_game_over, hits, late,
                   cacheVars, callVars>>

\* move(direction)
MoveLate ==
    \E direction \in Directions : \E r \in move(AppState, direction) :
        LateCalled(r.s, IF r.ret THEN "move" ELSE "move refused")

\* undo()
UndoLate ==
    /\ engine # NoEngine
    /\ LateCalled(undo(AppState).s, IF undo(AppState).ret THEN "undo" ELSE "undo refused")

\* new_game()
NewGameLate ==
    \E s \in new_game(AppState) : LateCalled(s, "new_game")

NextLate == MoveLate \/ UndoLate \/ NewGameLate

SpecLate == InitLate /\ [][NextLate]_vars

\* C27: in every state of a GameEngine reached by new_game, move and undo
\* the history holds between 1 and max_history_size entries; the move that
\* saves an eleventh entry drops the oldest one, the others keeping their
\* order; and undo() with fewer than 2 entries returns False and changes
\* nothing.
C27_HistoryBounded ==
    /\ [](/\ Len(engine.history) \in 1..max_history_size
          /\ Len(engine.history) < 2 => undo(AppState) = [ret |-> FALSE, s |-> AppState])
    /\ [][/\ observed'.calls = <<"move">> /\ Len(engine.history) = max_history_size
               => /\ Len(engine'.history) = max_history_size
                  /\ SubSeq(engine'.history, 1, max_history_size - 1) = Tail(engine.history)
                  /\ engine'.history[max_history_size].moves = engine.moves + 1
          /\ observed'.calls = <<"undo refused">>
               => Len(engine.history) < 2 /\ engine' = engine]_vars

C27_Witness ==
    /\ observed.calls = <<"move">>
    /\ engine.moves > max_history_size
    /\ Len(engine.history) = max_history_size
    /\ engine.history[1].moves = engine.moves - (max_history_size - 1)

\* ------------------------------------------------- concurrent requests
\* cap on the hint requests the threads serve in one run
MaxRequests == 3

InitThreads ==
    /\ caller = "AISolver"
    /\ SolverAtRest("expectimax", "expert")
    /\ \E b \in SearchBoards : game_state = GameState(b, 0, 0)
    /\ input = game_state
    /\ mv_dir = NoMove
    /\ mv = NoResult
    /\ is_game_over = _check_game_over(game_state.board)

\* get_ai_hint: the thread t enters get_best_move of the solver of the session
HintRequested(t) ==
    /\ threads[t].pc = "idle"
    /\ calls < MaxRequests
    /\ calls' = calls + 1
    /\ threads' = [threads EXCEPT ![t] = [pc |-> "called", returned |-> "nothing"]]
    /\ UNCHANGED <<game_state, input, mv_dir, mv, caller, algo_name, cache,
                   heuristic_cache, nodes_evaluated, pc, k, best_move, best_value, alpha,
                   expired, evaluated, result, tree, sims, is_game_over, hits, late,
                   appVars, cacheVars, call, solver>>

\* line 470: the test of is_thinking and is_game_over, None returned when
\* one of them is set
ThinkingTested(t) ==
    /\ threads[t].pc = "called"
    /\ threads' = [threads EXCEPT ![t] =
                      IF solver.is_thinking \/ is_game_over
                      THEN [pc |-> "idle", returned |-> NoMove]
                      ELSE [pc |-> "tested", returned |-> "nothing"]]
    /\ UNCHANGED <<game_state, input, mv_dir, mv, caller, algo_name, cache,
                   heuristic_cache, nodes_evaluated, pc, k, best_move, best_value, alpha,
                   expired, evaluated, result, tree, sims, is_game_over, hits, late,
                   appVars, cacheVars, call, solver, calls>>

\* line 473: is_thinking = True
ThinkingSet(t) ==
    /\ threads[t].pc = "tested"
    /\ solver' = [solver EXCEPT !.is_thinking = TRUE]
    /\ threads' = [threads EXCEPT ![t].pc = "searching"]
    /\ UNCHANGED <<game_state, input, mv_dir, mv, caller, algo_name, cache,
                   heuristic_cache, nodes_evaluated, pc, k, best_move, best_value, alpha,
                   expired, evaluated, result, tree, sims, is_game_over, hits, late,
                   appVars, cacheVars, call, calls>>

\* lines 475-499: the search, up to its return statement
Searched(t) ==
    /\ threads[t].pc = "searching"
    /\ \E best \in BestOf(get_possible_moves(game_state.board)) :
          threads' = [threads EXCEPT ![t] = [pc |-> "finally", returned |-> best]]
    /\ UNCHANGED <<game_state, input, mv_dir, mv, caller, algo_name, cache,
                   heuristic_cache, nodes_evaluated, pc, k, best_move, best_value, alpha,
                   expired, evaluated, result, tree, sims, is_game_over, hits, late,
                   appVars, cacheVars, call, solver, calls>>

\* lines 509-510: finally, is_thinking = False, and the call returns
ThinkingCleared(t) ==
    /\ threads[t].pc = "finally"
    /\ solver' = [solver EXCEPT !.is_thinking = FALSE]
    /\ threads' = [threads EXCEPT ![t].pc = "idle"]
    /\ UNCHANGED <<game_state, input, mv_dir, mv, caller, algo_name, cache,
                   heuristic_cache, nodes_evaluated, pc, k, best_move, best_value, alpha,
                   expired, evaluated, result, tree, sims, is_game_over, hits, late,
                   appVars, cacheVars, call, calls>>

NextThreads ==
    \E t \in Threads :
        \/ HintRequested(t)
        \/ ThinkingTested(t)
        \/ ThinkingSet(t)
        \/ Searched(t)
        \/ ThinkingCleared(t)

SpecThreads == InitThreads /\ [][NextThreads]_vars

\* the threads whose call of get_best_move is searching
Searching == {t \in Threads : threads[t].pc = "searching"}

\* C28: at most one get_best_move of a solver is searching at any time,
\* also with two request threads calling it for one session, a call made
\* while another searches finding is_thinking set; and is_thinking is False
\* whenever no call is in progress.
C28_OneSearchAtATime ==
    /\ Cardinality(Searching) <= 1
    /\ Searching # {} => solver.is_thinking
    /\ (\A t \in Threads : threads[t].pc = "idle") => ~solver.is_thinking

\* ------------------------------------------------- what one move changes
\* the board `after` is the board `slid` with one tile 2 or 4 more, in a cell
\* that is empty in `slid`
SpawnedOne(slid, after) ==
    \E i, j \in 1..Len(slid) :
        /\ slid[i][j] = 0
        /\ after[i][j] \in {2, 4}
        /\ after = [slid EXCEPT ![i][j] = after[i][j]]

\* history `after` is history `before` with one entry appended, less the
\* oldest entry when the cap is passed
AppendedOne(before, after) ==
    /\ after # <<>>
    /\ after = IF Len(before) = max_history_size
               THEN Append(Tail(before), after[Len(after)])
               ELSE Append(before, after[Len(after)])

\* C29: a move that returns False (the game is over or the direction
\* changes no cell) leaves the whole engine unchanged, no tile spawned; a
\* move that returns True increments moves by exactly 1, appends exactly one
\* history entry and spawns exactly one tile 2 or 4 in a cell that is empty
\* after the slide.
C29_MoveAllOrNothing ==
    [][/\ observed'.calls = <<"move refused">>
            => /\ engine' = engine
               /\ engine.is_game_over \/ \E d \in Directions :
                      ~EngineSlide(engine.board, engine.score, d).moved
       /\ observed'.calls = <<"move">>
            => /\ ~engine.is_game_over
               /\ engine'.moves = engine.moves + 1
               /\ AppendedOne(engine.history, engine'.history)
               /\ \E d \in Directions :
                      /\ EngineSlide(engine.board, engine.score, d).moved
                      /\ engine'.score = EngineSlide(engine.board, engine.score, d).score
                      /\ SpawnedOne(EngineSlide(engine.board, engine.score, d).board,
                                    engine'.board)]_vars

C29_Witness ==
    /\ observed.calls = <<"move">>
    /\ engine.moves = observed.before_move.moves + 1
    /\ engine.score > observed.before_move.score
    /\ \E d \in Directions :
          SpawnedOne(EngineSlide(observed.before_move.board, 0, d).board, engine.board)
    /\ engine.history[Len(engine.history)].moves = engine.moves
    /\ engine.history[Len(engine.history)].board # engine.board

\* ------------------------------------------------- auto-play
\* the size given to Fancy2048App and the board_size of settings.json (0
\* without the key or the file) when the application is started
AutoStarts == { <<2, 0>>, <<4, 2>> }

InitAuto ==
    /\ \E st \in AutoStarts : \E s \in Fancy2048App(st[1], [board_size |-> st[2]]) :
          engine = s.engine /\ app = s.app
    /\ GameAtRest(app)

\* start_auto_play()
StartAutoPlay ==
    /\ engine # NoEngine
    /\ AppCalled(start_auto_play(AppState).s, "start_auto_play")

\* stop_auto_play()
StopAutoPlay ==
    /\ engine # NoEngine
    /\ AppCalled(stop_auto_play(AppState), "stop_auto_play")

\* toggle_auto_play()
ToggleAutoPlay ==
    /\ engine # NoEngine
    /\ AppCalled(toggle_auto_play(AppState).s, "toggle_auto_play")

\* play_auto_move()
PlayAutoMove ==
    /\ engine # NoEngine
    /\ engine.moves < MaxMoves \/ ~app.auto_play_active \/ engine.is_game_over
    /\ \E r \in play_auto_move(AppState, solver.is_thinking) :
          AppCalled(r.s, IF r.ret THEN "play_auto_move" ELSE "play_auto_move refused")

NextAuto ==
    \/ StartAutoPlay
    \/ StopAutoPlay
    \/ ToggleAutoPlay
    \/ PlayAutoMove
    \/ Move
    \/ Undo
    \/ NewGame

SpecAuto == InitAuto /\ [][NextAuto]_vars

\* C30: after any sequence of start_auto_play, stop_auto_play,
\* toggle_auto_play, play_auto_move, move, undo and new_game,
\* auto_play_active is never true while the game is over.
C30_NoAutoPlayWhenOver ==
    ~(app.auto_play_active /\ engine.is_game_over)

====
